---- MODULE Spec2Model ----
(***************************************************************************)
(* Model of the simple playlist of melo (melo_playlist_simple.c): the      *)
(* ordered GList of items, the GHashTable of names, the current pointer,   *)
(* the playlist mutex and the calls the playlist makes to its player; and  *)
(* of the event dispatcher (melo_event.c): the list of clients, its lock   *)
(* and the delivery of events to the callbacks of the clients.             *)
(***************************************************************************)
EXTENDS Integers, Sequences, FiniteSets, TLC

VARIABLES
  playlist,      \* priv->playlist: the GList, head first; one record per node
  names,         \* priv->names: GHashTable, final name -> GList node
  current,       \* priv->current: a GList node or NULL
  mutex,         \* priv->mutex: "free" or the thread that holds it
  player,        \* playlist->player: NULL or the attached player
  next_node,     \* allocator: the address the next GList node / item gets
  pc,            \* per thread: its position in the operation it runs
  frame,         \* per thread: arguments, locals and results of its operation
  player_calls,  \* per thread: the player calls its operation has made
  item_refs      \* per item allocated: its reference count (0: freed)

VARIABLES
  kept,          \* a list returned by get_list that its caller still holds
  gint_max       \* the greatest value a gint holds in the build modelled

VARIABLES
  melo_event_clients,  \* the GList of registered clients, head first
  melo_event_mutex,    \* "free" or the thread that holds the lock
  next_client,         \* allocator: the address the next client gets
  next_event,          \* the number the next event published gets
  handles,             \* the clients whose handle a caller still holds
  client_freed,        \* the clients unregister has freed
  epc,                 \* per thread: its position in the dispatcher
  eframe,              \* per thread: arguments and locals of its call
  event_log            \* the callbacks and destructors called, in order

\* The variables of the event dispatcher and of its callers.
event_vars == <<melo_event_clients, melo_event_mutex, next_client,
                next_event, handles, client_freed, epc, eframe, event_log>>

VARIABLES
  ppc,           \* the position of the thread that generates a player event
  generated,     \* the event sub-type and the arguments of the generator
  stack,         \* the parameters and locals of the running generator
  data,          \* the gpointer the callback is given
  parsed         \* what the parser of the sub-type made of data

\* The variables of the generators and parsers of player events.
payload_vars == <<ppc, generated, stack, data, parsed>>

VARIABLES
  sys_stack,     \* per thread: the calls it is in, innermost first
  player_lock,   \* the lock of the player: "free" or the thread holding it
  player_state,  \* the state field of the status of the player
  next_mutation, \* the number the next status mutation gets
  applied,       \* the mutations in the order they were applied to the status
  received       \* per client: the mutations whose event it was called for

\* The variables of the player and of the threads that cross components.
system_vars == <<sys_stack, player_lock, player_state, next_mutation,
                 applied, received>>

VARIABLES
  methods,       \* the registry of melo_jsonrpc: the methods registered
  browsers,      \* the ids melo_browser_get_browser_by_id finds a browser for
  rpc_pc,        \* the position of the thread that serves a request
  rpc,           \* the request it serves: arguments, locals and outcome
  registry_call  \* the last call that registered or unregistered the batch

\* The variables of the JSON-RPC interface of the browsers.
rpc_vars == <<methods, browsers, rpc_pc, rpc, registry_call>>

VARIABLES
  status,        \* the active status snapshot of the player
  timestamp,     \* the time of the last write of the snapshot
  status_call,   \* the last call made on the player and what it returned
  polled,        \* what the last get_status returned
  since_poll     \* what the calls since the last get_status did to the status

\* The variables of the status of the player and of its callers.
status_vars == <<status, timestamp, status_call, polled, since_poll>>

VARIABLES
  file_mutex,    \* priv->mutex of the file browser: "free" or its holder
  ids,           \* priv->ids and priv->vms: the volumes and mounts listed
  mounts,        \* the volumes g_volume_get_mount finds a mount for
  fpc,           \* per thread: its position in get_list of the file browser
  fframe,        \* per thread: the path, the locals and the result
  wait_mutex,    \* per thread: the GMutex on its stack it waits with
  mount_task,    \* per thread: the g_volume_mount operation it started
  gmutex         \* what the GMutex of the build does where GLib leaves it open

\* The variables of the file browser and of its callers.
file_vars == <<file_mutex, ids, mounts, fpc, fframe, wait_mutex, mount_task,
               gmutex>>

\* The variables of the interfaces remote callers use.
service_vars == <<rpc_vars, status_vars, file_vars>>

\* The variables of the playlist and of its callers.
playlist_vars == <<playlist, names, current, mutex, player, next_node, pc,
                   frame, player_calls, item_refs>>

\* The variables the playlist operations leave alone.
other_vars ==
  <<kept, gint_max, event_vars, payload_vars, system_vars, service_vars>>

vars == <<playlist_vars, other_vars>>

(* ------------------------------------------------------------------ *)
(* Bounds                                                             *)
(* ------------------------------------------------------------------ *)
MaxAdds == 3

\* The greatest value of the retry counter of add in the narrow build.
RetryMax == 1

\* The longest list a browser returns to the JSON-RPC handler.
MaxItems == 2

\* The writes of the status of the player.
MaxWrites == 2

Threads == {"t1"}

\* The clients registered with the dispatcher and the events published.
MaxClients == 2
MaxEvents == 2

\* The status mutations of the player.
MaxMutations == 2

\* The threads that run playlist operations, status mutations and event
\* publishes, and the clients registered with the dispatcher.
SysThreads == {"t1", "t2"}
Subscribers == {1, 2}

\* The threads that call the dispatcher: one publishes events, the other
\* registers and unregisters clients.
Publishers == {"t1"}
Registrars == {"t2"}
EventThreads == Publishers \cup Registrars

(* ------------------------------------------------------------------ *)
(* Values                                                             *)
(* ------------------------------------------------------------------ *)
NULL == 0                       \* a NULL GList / player pointer
NullStr == "<NULL>"             \* a NULL gchar pointer
NullTags == "<NULLTAGS>"        \* a NULL MeloTags pointer
Player0 == 1                    \* the attached MeloPlayer

MELO_PLAYLIST_SIMPLE_NAME_EXT_SIZE == 10
G_MAXINT == 2147483647
G_MININT == -G_MAXINT - 1

MELO_PLAYER_STATE_NONE == "NONE"

\* The arguments add is called with: (name, full_name, path, tags).
AddInputs ==
  { [name |-> "a",     full_name |-> NullStr, path |-> "p1",  tags |-> NullTags],
    [name |-> NullStr, full_name |-> "a",     path |-> "p2",  tags |-> "tg1"],
    [name |-> NullStr, full_name |-> NullStr, path |-> "a_1", tags |-> NullTags],
    [name |-> "b",     full_name |-> "B",     path |-> "p3",  tags |-> "tg2"] }

\* The names play and remove are called with.
NameInputs == {"a", "a_1", "a_2", "b", "missing"}

\* A NULL GBytes pointer, and what a pointer holds that was never set.
NullBytes == "<NULLBYTES>"
Uninitialized == "<UNINITIALIZED>"

NoItem == [node |-> NULL, name |-> NullStr, full_name |-> NullStr,
           path |-> NullStr, tags |-> NullTags]

\* No list is held.
NoKept == [held |-> FALSE, items |-> <<>>, current |-> NullStr]

\* A gpointer: NULL, the address of an object of the caller ("heap"), the
\* address of a parameter or local of the running generator ("stack"), or
\* an integer stored in the pointer ("int": hi and lo are the upper and
\* the lower 32 bits).
NullPointer == [kind |-> "null", at |-> "", hi |-> 0, lo |-> 0]

\* No event is being generated.
NoEvent == [event |-> "none", args |-> <<>>]

\* The frame of a thread that is not in the dispatcher.  outer holds the
\* frame of the publish whose callback made the call, if one did.
EmptyEFrame == [op |-> "none", client |-> 0, event |-> 0, l |-> 0,
                free_data_func |-> FALSE, outer |-> <<>>]

\* A JsonNode: its type, the value of a scalar and the items of an array
\* or the members of an object.  NullNode is the NULL pointer, Absent the
\* member an object has not.
JsonNode(type, value, items) ==
  [type |-> type, value |-> value, items |-> items]
JsonString(str) == JsonNode("string", str, <<>>)
JsonInt(digits) == JsonNode("int", digits, <<>>)
JsonArray(items) == JsonNode("array", "", items)
JsonObject(members) == JsonNode("object", "", members)
NullNode == JsonNode("NULL", "", <<>>)
Absent == JsonNode("absent", "", <<>>)
NullBrowser == "<NULLBROWSER>"  \* a NULL MeloBrowser pointer

\* The members the params of a request carry, and where the object of the
\* params holds each.
MemberIndex == [id |-> 1, path |-> 2, fields |-> 3, sort |-> 4]
Member(obj, name) == obj.items[MemberIndex[name]]

\* The ids of the browsers.
BrowserIds == {"file"}

\* A snapshot as reset makes it: the state, the name and the tags given,
\* every other field at its default.
FreshStatus(state, name, tags) ==
  [state |-> state, buffer_percent |-> 0, pos |-> 0, duration |-> 0,
   has_prev |-> FALSE, has_next |-> FALSE, volume |-> "1.0", mute |-> FALSE,
   name |-> name, error |-> NullStr, tags |-> tags]

\* No call made on the player yet, and no get_status.
NoStatusCall ==
  [op |-> "none", cmd |-> "", state |-> "", ret |-> "", events |-> <<>>,
   before |-> FreshStatus(MELO_PLAYER_STATE_NONE, NullStr, NullTags)]
NoPoll ==
  [polls |-> 0, timestamp |-> 0, previous |-> 0, between |-> "none",
   status |-> FreshStatus(MELO_PLAYER_STATE_NONE, NullStr, NullTags)]

\* No request: the frame of the serving thread between two requests.
NoRpc == [namespace |-> "", method |-> "", params |-> NullNode,
          s_params |-> <<>>, callback |-> "", obj |-> NullNode,
          bro |-> NullBrowser, obj_refs |-> 0, bro_refs |-> 0,
          path |-> NullStr, list |-> <<>>,
          result |-> NullNode, error |-> NullNode, response |-> NullNode,
          invoked |-> <<>>]

EmptyFrame == [op |-> "none", name |-> NullStr, full_name |-> NullStr,
               path |-> NullStr, tags |-> NullTags, flag |-> FALSE,
               element |-> NULL, item |-> NoItem, was_current |-> FALSE,
               ret |-> FALSE, ret_path |-> NullStr,
               out_name |-> NullStr, out_tags |-> NullTags,
               list |-> <<>>, list_current |-> NullStr,
               final_name |-> NullStr, waited |-> FALSE,
               out_data |-> "<NULLBYTES>", out_type |-> NullStr]

(* ------------------------------------------------------------------ *)
(* GList and GHashTable helpers                                       *)
(* ------------------------------------------------------------------ *)
\* The nodes of the list, as a set.
Nodes == { playlist[p].node : p \in 1..Len(playlist) }

\* Position of a node in the list (0 when the node is not linked).
PosOf(list, node) ==
  IF \E p \in 1..Len(list) : list[p].node = node
  THEN CHOOSE p \in 1..Len(list) : list[p].node = node
  ELSE 0

\* Mutant: next walks toward the head.
g_list_next_TowardHead(list, node) ==
  LET p == PosOf(list, node)
  IN IF p > 1 THEN list[p - 1].node ELSE NULL

\* node->next: one step toward the tail.
g_list_next(list, node) ==
  LET p == PosOf(list, node)
  IN IF p > 0 /\ p < Len(list) THEN list[p + 1].node ELSE NULL

\* Mutant: prev of the head wraps around to the tail, as in a circular list.
g_list_prev_Wrap(list, node) ==
  LET p == PosOf(list, node)
  IN IF p > 1 THEN list[p - 1].node
     ELSE IF p = 1 THEN list[Len(list)].node ELSE NULL

\* node->prev: one step toward the head.
g_list_prev(list, node) ==
  LET p == PosOf(list, node)
  IN IF p > 1 THEN list[p - 1].node ELSE NULL

\* node->data.
NodeData(list, node) ==
  LET p == PosOf(list, node)
  IN IF p > 0 THEN list[p] ELSE NoItem

\* Mutant: the new node is linked at the tail.
g_list_prepend_Append(list, item) == list \o <<item>>

g_list_prepend(list, item) == <<item>> \o list

\* g_list_remove: unlinks the first node whose data is the item.
g_list_remove(list, item) ==
  LET p == PosOf(list, item.node)
  IN IF p = 0 THEN list
     ELSE SubSeq(list, 1, p - 1) \o SubSeq(list, p + 1, Len(list))

\* g_hash_table_new: no key.
EmptyTable == [k \in {} |-> NULL]

g_hash_table_lookup(table, key) ==
  IF key \in DOMAIN table THEN table[key] ELSE NULL

g_hash_table_insert(table, key, value) ==
  [k \in (DOMAIN table) \cup {key} |-> IF k = key THEN value ELSE table[k]]

g_hash_table_remove(table, key) ==
  [k \in (DOMAIN table) \ {key} |-> table[k]]

(* ------------------------------------------------------------------ *)
(* Name generation of add                                             *)
(* ------------------------------------------------------------------ *)
Digit == <<"0", "1", "2", "3", "4", "5", "6", "7", "8", "9">>

\* "%d" of a positive integer.
RECURSIVE FormatDec(_)
FormatDec(i) ==
  IF i < 10 THEN Digit[i + 1] ELSE FormatDec(i \div 10) \o Digit[(i % 10) + 1]

\* "%d" of an integer.
FormatInt(i) == IF i < 0 THEN "-" \o FormatDec(-i) ELSE FormatDec(i)

\* Mutant: the suffix is one ahead of the loop counter.
g_snprintf_OffByOne(size, i) == "_" \o FormatDec(i + 1)

\* g_snprintf (buf, size, "_%d", i): at most size - 1 characters are written.
g_snprintf(size, i) ==
  LET full == "_" \o FormatInt(i)
  IN IF Len(full) > size - 1 THEN SubSeq(full, 1, size - 1) ELSE full

\* i++ on a gint: past the greatest value the counter of the machine wraps
\* to the least one.  The overflow is undefined in C: what the build makes
\* of the tests on i is the parameter checked of NameLoop.
IncGint(i) == IF i = gint_max THEN -gint_max - 1 ELSE i + 1

\* Mutant: the loop never looks the candidate up and keeps the base name.
NameLoop_NoLookup(table, base, final_name, i, checked) ==
  [i |-> i, final_name |-> final_name]

\* for (i = 1; i > 0 && g_hash_table_lookup (names, final_name); i++)
\*   g_snprintf (final_name + len, EXT_SIZE, "_%d", i);
\* checked: the build tests i > 0 as written.  A build that takes i++ never
\* to overflow knows i > 0 to hold from i = 1 on and drops the test.
RECURSIVE NameLoop(_, _, _, _, _)
NameLoop(table, base, final_name, i, checked) ==
  IF (checked => i > 0) /\ g_hash_table_lookup(table, final_name) # NULL
  THEN NameLoop(table, base,
                base \o g_snprintf(MELO_PLAYLIST_SIMPLE_NAME_EXT_SIZE, i),
                IncGint(i), checked)
  ELSE [i |-> i, final_name |-> final_name]

\* if (i < 0): the test after the loop, dropped with the one in the loop.
NameFailed(i, checked) == checked /\ i < 0

\* Use full_name or path when name is not provided.
BaseName(in) ==
  IF in.name # NullStr THEN in.name
  ELSE IF in.full_name # NullStr THEN in.full_name ELSE in.path

(* ------------------------------------------------------------------ *)
(* Initial state: melo_playlist_simple_init                           *)
(* ------------------------------------------------------------------ *)
InitPlaylist ==
  /\ playlist = <<>>
  /\ names = EmptyTable
  /\ current = NULL
  /\ mutex = "free"
  /\ player \in {NULL, Player0}
  /\ next_node = 1
  /\ pc = [t \in Threads |-> "idle"]
  /\ frame = [t \in Threads |-> EmptyFrame]
  /\ player_calls = [t \in Threads |-> <<>>]
  /\ item_refs = EmptyTable
  /\ kept = NoKept

\* melo_event_clients = NULL, no thread in the dispatcher.
InitEvent ==
  /\ melo_event_clients = <<>>
  /\ melo_event_mutex = "free"
  /\ next_client = 1
  /\ next_event = 1
  /\ handles = {}
  /\ client_freed = {}
  /\ epc = [t \in EventThreads |-> "idle"]
  /\ eframe = [t \in EventThreads |-> EmptyEFrame]
  /\ event_log = <<>>

\* No generator runs.
InitPayload ==
  /\ ppc = "idle"
  /\ generated = NoEvent
  /\ stack = EmptyTable
  /\ data = NullPointer
  /\ parsed = <<>>

\* The player is in its initial state and no thread is in a call.
InitPlayer ==
  /\ sys_stack = [t \in SysThreads |-> <<>>]
  /\ player_lock = "free"
  /\ player_state = MELO_PLAYER_STATE_NONE
  /\ next_mutation = 1
  /\ applied = <<>>
  /\ received = [client \in Subscribers |-> <<>>]

\* No method is registered yet, no browser exists and no request is served.
InitRpc ==
  /\ methods = {}
  /\ browsers = {}
  /\ rpc_pc = "idle"
  /\ rpc = NoRpc
  /\ registry_call = "none"

\* The status of a player that has no media: the state is NONE.
InitStatus ==
  /\ status = FreshStatus(MELO_PLAYER_STATE_NONE, NullStr, NullTags)
  /\ timestamp = 0
  /\ status_call = NoStatusCall
  /\ polled = NoPoll
  /\ since_poll = "none"

\* The threads that call get_list of the file browser.
FileThreads == {"t1", "t2"}

\* The locals of get_list before it is called.
NoFileCall == [path |-> "", id |-> "", obj |-> "", mount |-> "",
               ret |-> "none", waited |-> FALSE]

\* The file browser of melo_browser_file_init: no thread is in get_list.
InitFile ==
  /\ file_mutex = "free"
  /\ ids = {}
  /\ mounts = {}
  /\ fpc = [t \in FileThreads |-> "idle"]
  /\ fframe = [t \in FileThreads |-> NoFileCall]
  /\ wait_mutex = [t \in FileThreads |-> "none"]
  /\ mount_task = [t \in FileThreads |-> "none"]

\* A GMutex that makes a second lock by its holder wait and lets any
\* thread unlock it.
GMutexPlain == [relock |-> "blocks", unlock |-> "released"]

InitService == InitRpc /\ InitStatus /\ InitFile /\ gmutex = GMutexPlain

\* The build has the gint of the source, 32 bits wide.
Init ==
  /\ InitPlaylist /\ gint_max = G_MAXINT
  /\ InitEvent /\ InitPayload /\ InitPlayer /\ InitService

(* ------------------------------------------------------------------ *)
(* Operations.  Every operation runs in a thread t.  The steps an     *)
(* operation makes under the mutex without calling out are one        *)
(* action; a call to the player is a step of its own.                 *)
(* ------------------------------------------------------------------ *)
\* A call made to the player: the function, its arguments, the player it
\* is made on, and whether the calling thread holds the playlist mutex.
Call(t, fn, item, state) ==
  [fn |-> fn, target |-> player, path |-> item.path, name |-> item.name,
   tags |-> item.tags, state |-> state, locked |-> (mutex = t)]

\* melo_playlist_item_new: the new item holds one reference.
ItemNewRef(refs, id) ==
  [k \in (DOMAIN refs) \cup {id} |-> IF k = id THEN 1 ELSE refs[k]]

\* melo_playlist_item_ref (item).
melo_playlist_item_ref(refs, id) == [refs EXCEPT ![id] = @ + 1]

\* melo_playlist_item_unref (item): the item is freed with its last
\* reference.
melo_playlist_item_unref(refs, id) ==
  [refs EXCEPT ![id] = IF @ > 0 THEN @ - 1 ELSE 0]

\* list->items = g_list_copy_deep (priv->playlist, melo_playlist_item_ref)
g_list_copy_deep(list) == [p \in 1..Len(list) |-> list[p]]

\* Mutant: a shallow g_list_copy, which takes no reference.
CopyRefs_Shallow(refs, list) == refs

\* The references g_list_copy_deep takes with its copy function, item by
\* item from the head on.
RECURSIVE CopyRefs(_, _)
CopyRefs(refs, list) ==
  IF list = <<>> THEN refs
  ELSE CopyRefs(melo_playlist_item_ref(refs, list[1].node), Tail(list))

\* melo_playlist_list_free: the caller of get_list releases the list and
\* with it the reference the list holds on each item.
RECURSIVE melo_playlist_list_free(_, _)
melo_playlist_list_free(refs, list) ==
  IF list = <<>> THEN refs
  ELSE melo_playlist_list_free(melo_playlist_item_unref(refs, list[1].node),
                               Tail(list))

\* if (priv->current) list->current = g_strdup (current item's name);
ListCurrent ==
  IF current # NULL THEN NodeData(playlist, current).name ELSE NullStr

melo_playlist_simple_get_list(t) ==
  /\ pc[t] = "idle"
  /\ mutex = "free"
  /\ frame' = [frame EXCEPT ![t] =
       [EmptyFrame EXCEPT !.op = "get_list", !.ret = TRUE,
          !.list = g_list_copy_deep(playlist),
          !.list_current = ListCurrent]]
  /\ item_refs' = CopyRefs(item_refs, playlist)
  /\ pc' = [pc EXCEPT ![t] = "done"]
  /\ player_calls' = [player_calls EXCEPT ![t] = <<>>]
  /\ UNCHANGED <<playlist, names, current, mutex, player, next_node>>
  /\ UNCHANGED other_vars

\* The item add builds: melo_playlist_item_new + item->name = final_name.
NewItem(in, final_name) ==
  [node |-> next_node, name |-> final_name, full_name |-> in.full_name,
   path |-> in.path, tags |-> in.tags]

\* if (is_current) priv->current = priv->playlist;
AddCurrent(is_current, head) == IF is_current THEN head ELSE current

\* The effect of add on the list, the table and current, once the name
\* loop has ended with a free name.
AddInsert(in, is_current, final_name) ==
  LET item == NewItem(in, final_name)
      list == g_list_prepend(playlist, item)
  IN /\ playlist' = list
     /\ names' = g_hash_table_insert(names, final_name, list[1].node)
     /\ current' = AddCurrent(is_current, list[1].node)
     /\ next_node' = next_node + 1
     /\ item_refs' = ItemNewRef(item_refs, item.node)

melo_playlist_simple_add(t) ==
  /\ pc[t] = "idle"
  /\ mutex = "free"
  /\ \E in \in AddInputs, is_current \in BOOLEAN, checked \in BOOLEAN :
       LET base == BaseName(in)
           res == NameLoop(names, base, base, 1, checked)
           failed == NameFailed(res.i, checked)
       IN /\ next_node <= MaxAdds \/ (checked /\ failed)
          /\ IF failed
             THEN UNCHANGED <<playlist, names, current, next_node, item_refs>>
             ELSE AddInsert(in, is_current, res.final_name)
          /\ frame' = [frame EXCEPT ![t] =
               [EmptyFrame EXCEPT !.op = "add", !.name = in.name,
                  !.full_name = in.full_name, !.path = in.path,
                  !.tags = in.tags, !.flag = is_current,
                  !.ret = ~failed]]
  /\ pc' = [pc EXCEPT ![t] = "done"]
  /\ player_calls' = [player_calls EXCEPT ![t] = <<>>]
  /\ UNCHANGED <<mutex, player>>
  /\ UNCHANGED other_vars

\* Mutant: get_prev returns the item and never moves current.
PrevCurrent_Never(set, node) == current

\* if (set) priv->current = priv->current->next;
PrevCurrent(set, node) == IF set THEN node ELSE current

\* priv->current = priv->current->prev;
NextCurrent(set, node) == node

\* The result of get_prev / get_next for the adjacent node found.
Advance(t, op, set, node) ==
  LET item == NodeData(playlist, node)
  IN frame' = [frame EXCEPT ![t] =
       [EmptyFrame EXCEPT !.op = op, !.flag = set,
          !.ret = (node # NULL),
          !.ret_path = item.path, !.out_name = item.name,
          !.out_tags = item.tags]]

melo_playlist_simple_get_prev(t) ==
  /\ pc[t] = "idle"
  /\ mutex = "free"
  /\ \E set \in BOOLEAN :
       LET node == IF current # NULL THEN g_list_next(playlist, current)
                   ELSE NULL
       IN /\ Advance(t, "get_prev", set, node)
          /\ current' = IF node # NULL THEN PrevCurrent(set, node) ELSE current
  /\ pc' = [pc EXCEPT ![t] = "done"]
  /\ player_calls' = [player_calls EXCEPT ![t] = <<>>]
  /\ UNCHANGED <<playlist, names, mutex, player, next_node, item_refs>>
  /\ UNCHANGED other_vars

melo_playlist_simple_get_next(t) ==
  /\ pc[t] = "idle"
  /\ mutex = "free"
  /\ \E set \in BOOLEAN :
       LET node == IF current # NULL THEN g_list_prev(playlist, current)
                   ELSE NULL
       IN /\ Advance(t, "get_next", set, node)
          /\ current' = IF node # NULL THEN NextCurrent(set, node) ELSE current
  /\ pc' = [pc EXCEPT ![t] = "done"]
  /\ player_calls' = [player_calls EXCEPT ![t] = <<>>]
  /\ UNCHANGED <<playlist, names, mutex, player, next_node, item_refs>>
  /\ UNCHANGED other_vars

\* Mutant: current is assigned before the element is tested.
PlayCurrent_Unconditional(element) == element

\* if (element) { item = element->data; priv->current = element; }
PlayCurrent(element) == IF element # NULL THEN element ELSE current

\* play, from the lock to the unlock: the lookup and the update of current.
melo_playlist_simple_play(t) ==
  /\ pc[t] = "idle"
  /\ mutex = "free"
  /\ \E name \in NameInputs :
       LET element == g_hash_table_lookup(names, name)
       IN /\ current' = PlayCurrent(element)
          /\ frame' = [frame EXCEPT ![t] =
               [EmptyFrame EXCEPT !.op = "play", !.name = name,
                  !.element = element,
                  !.item = NodeData(playlist, element)]]
          /\ pc' = [pc EXCEPT ![t] =
               IF element # NULL THEN "play_player" ELSE "done"]
          /\ item_refs' = IF element # NULL
                          THEN melo_playlist_item_ref(item_refs, element)
                          ELSE item_refs
  /\ player_calls' = [player_calls EXCEPT ![t] = <<>>]
  /\ UNCHANGED <<playlist, names, mutex, player, next_node>>
  /\ UNCHANGED other_vars

\* if (playlist->player) melo_player_play (player, path, name, tags, FALSE);
PlayCalls(t) ==
  IF player # NULL
  THEN Append(player_calls[t], Call(t, "play", frame[t].item, "-"))
  ELSE player_calls[t]

\* play, after the unlock: the call to the player and the return.
play_player(t) ==
  /\ pc[t] = "play_player"
  /\ player_calls' = [player_calls EXCEPT ![t] = PlayCalls(t)]
  /\ frame' = [frame EXCEPT ![t].ret = TRUE]
  /\ item_refs' = melo_playlist_item_unref(item_refs, frame[t].item.node)
  /\ pc' = [pc EXCEPT ![t] = "done"]
  /\ UNCHANGED <<playlist, names, current, mutex, player, next_node>>
  /\ UNCHANGED other_vars

\* if (element == priv->current), for an element that was found.
IsCurrent(element) == element # NULL /\ element = current

\* Mutant: the early return of a failed lookup is missing, so a NULL
\* element goes on to the test against current.
RemoveBranch_NoEarlyReturn(element) ==
  IF element = current THEN "remove_stop" ELSE "remove_unlink"

\* Where remove goes after the lookup: the early return, the stop of the
\* player for the current item, or the unlinking.
RemoveBranch(element) ==
  IF element = NULL THEN "done"
  ELSE IF IsCurrent(element) THEN "remove_stop"
  ELSE "remove_unlink"

\* remove, from the lock to the test of the element found.
melo_playlist_simple_remove(t) ==
  /\ pc[t] = "idle"
  /\ mutex = "free"
  /\ \E name \in NameInputs :
       LET element == g_hash_table_lookup(names, name)
       IN /\ frame' = [frame EXCEPT ![t] =
               [EmptyFrame EXCEPT !.op = "remove", !.name = name,
                  !.element = element,
                  !.item = NodeData(playlist, element),
                  !.was_current = IsCurrent(element)]]
          /\ mutex' = IF RemoveBranch(element) = "done" THEN "free" ELSE t
          /\ pc' = [pc EXCEPT ![t] = RemoveBranch(element)]
  /\ player_calls' = [player_calls EXCEPT ![t] = <<>>]
  /\ UNCHANGED <<playlist, names, current, player, next_node, item_refs>>
  /\ UNCHANGED other_vars

\* Mutant: remove of the current item does not stop the player.
StopCalls_NoCall(t) == player_calls[t]

\* melo_player_set_state (playlist->player, MELO_PLAYER_STATE_NONE);
StopCalls(t) ==
  Append(player_calls[t], Call(t, "set_state", NoItem, MELO_PLAYER_STATE_NONE))

\* Mutant: remove leaves current on the node it is about to free.
ClearedCurrent_Kept == current

\* priv->current = NULL;
ClearedCurrent == NULL

\* remove of the current item: the player is stopped, current is cleared.
remove_stop(t) ==
  /\ pc[t] = "remove_stop"
  /\ player_calls' = [player_calls EXCEPT ![t] = StopCalls(t)]
  /\ current' = ClearedCurrent
  /\ pc' = [pc EXCEPT ![t] = "remove_unlink"]
  /\ UNCHANGED <<playlist, names, mutex, player, next_node, frame,
                 item_refs>>
  /\ UNCHANGED other_vars

\* What remove leaves of the list and of the table.
RemoveList(item) == g_list_remove(playlist, item)

\* Mutant: remove leaves the name in the table.
RemoveNames_Kept(name) == names

RemoveNames(name) == g_hash_table_remove(names, name)

\* remove, from the unlinking to the unlock and the return.
remove_unlink(t) ==
  /\ pc[t] = "remove_unlink"
  /\ playlist' = RemoveList(frame[t].item)
  /\ names' = RemoveNames(frame[t].name)
  /\ mutex' = "free"
  /\ item_refs' = melo_playlist_item_unref(item_refs, frame[t].item.node)
  /\ frame' = [frame EXCEPT ![t].ret = TRUE]
  /\ pc' = [pc EXCEPT ![t] = "done"]
  /\ UNCHANGED <<current, player, next_node, player_calls>>
  /\ UNCHANGED other_vars

\* The caller takes the result and frees the list get_list gave it; the
\* thread is free for its next call.
Return(t) ==
  /\ pc[t] = "done"
  /\ pc' = [pc EXCEPT ![t] = "idle"]
  /\ frame' = [frame EXCEPT ![t] = EmptyFrame]
  /\ item_refs' = melo_playlist_list_free(item_refs, frame[t].list)
  /\ player_calls' = [player_calls EXCEPT ![t] = <<>>]
  /\ UNCHANGED <<playlist, names, current, mutex, player, next_node>>
  /\ UNCHANGED other_vars

\* The caller of get_list holds on to the list it was given.
KeepList(t) ==
  /\ pc[t] = "done"
  /\ frame[t].op = "get_list"
  /\ kept = NoKept
  /\ kept' = [held |-> TRUE, items |-> frame[t].list,
              current |-> frame[t].list_current]
  /\ pc' = [pc EXCEPT ![t] = "idle"]
  /\ frame' = [frame EXCEPT ![t] = EmptyFrame]
  /\ player_calls' = [player_calls EXCEPT ![t] = <<>>]
  /\ UNCHANGED <<playlist, names, current, mutex, player, next_node,
                 item_refs, gint_max, event_vars, payload_vars, system_vars,
                 service_vars>>

Next ==
  \E t \in Threads :
    \/ melo_playlist_simple_get_list(t)
    \/ melo_playlist_simple_add(t)
    \/ melo_playlist_simple_get_prev(t)
    \/ melo_playlist_simple_get_next(t)
    \/ melo_playlist_simple_play(t)
    \/ play_player(t)
    \/ melo_playlist_simple_remove(t)
    \/ remove_stop(t)
    \/ remove_unlink(t)
    \/ Return(t)

Spec == Init /\ [][Next]_vars

(* ------------------------------------------------------------------ *)
(* The playlist in a build with a narrow gint, where the name loop of   *)
(* add runs out of candidates within a few adds                         *)
(* ------------------------------------------------------------------ *)
InitRetry ==
  /\ InitPlaylist /\ player = Player0 /\ gint_max = RetryMax
  /\ InitEvent /\ InitPayload /\ InitPlayer /\ InitService

SpecRetry == InitRetry /\ [][Next]_vars

(* ------------------------------------------------------------------ *)
(* The playlist with a caller that keeps a list get_list returned, and  *)
(* the operations that add, remove and make current afterwards          *)
(* ------------------------------------------------------------------ *)
NextList ==
  \E t \in Threads :
    \/ melo_playlist_simple_get_list(t)
    \/ melo_playlist_simple_add(t)
    \/ melo_playlist_simple_play(t)
    \/ play_player(t)
    \/ melo_playlist_simple_remove(t)
    \/ remove_stop(t)
    \/ remove_unlink(t)
    \/ Return(t)
    \/ KeepList(t)

\* The playlist has its player attached.
InitList == Init /\ player = Player0

SpecList == InitList /\ [][NextList]_vars

(* ------------------------------------------------------------------ *)
(* The event dispatcher: melo_event_register, melo_event_unregister,    *)
(* melo_event_new.  A thread calls them from outside (epc "idle") or,   *)
(* where the specification lets callbacks do so, from the callback it   *)
(* is running (epc "in_callback").                                      *)
(* ------------------------------------------------------------------ *)
\* What the dispatcher leaves alone.
outside_event_vars ==
  <<playlist_vars, kept, gint_max, payload_vars, system_vars, service_vars>>

\* The frame a call made at the position from starts with.
CallFrame(t, from) ==
  [EmptyEFrame EXCEPT
     !.outer = IF from = "in_callback" THEN <<eframe[t]>> ELSE <<>>]

\* Mutant: the lock is recursive.
G_LOCK_Recursive(t) == melo_event_mutex \in {"free", t}

\* Mutant: the lock lets a thread in while another holds it.
G_LOCK_NoWait(t) == TRUE

\* G_LOCK (melo_event_mutex) returns only once no thread holds the lock;
\* the thread that holds it waits for itself.
G_LOCK(t) == melo_event_mutex = "free"

\* client = g_slice_new0 (MeloEventClient); fill the client context.
melo_event_register(t, from) ==
  /\ epc[t] = from
  /\ next_client <= MaxClients
  /\ eframe' = [eframe EXCEPT ![t] =
       [CallFrame(t, from) EXCEPT !.op = "register", !.client = next_client]]
  /\ next_client' = next_client + 1
  /\ epc' = [epc EXCEPT ![t] = "register_lock"]
  /\ UNCHANGED <<melo_event_clients, melo_event_mutex, next_event, handles,
                 client_freed, event_log>>
  /\ UNCHANGED outside_event_vars

\* G_LOCK; melo_event_clients = g_list_prepend (...); G_UNLOCK; return client.
register_locked(t) ==
  /\ epc[t] = "register_lock"
  /\ G_LOCK(t)
  /\ melo_event_clients' = <<eframe[t].client>> \o melo_event_clients
  /\ handles' = handles \cup {eframe[t].client}
  /\ epc' = [epc EXCEPT ![t] = "done"]
  /\ UNCHANGED <<melo_event_mutex, next_client, next_event, client_freed,
                 eframe, event_log>>
  /\ UNCHANGED outside_event_vars

\* melo_event_unregister (client), with a handle register returned.
melo_event_unregister(t, from) ==
  /\ epc[t] = from
  /\ \E client \in handles :
       /\ eframe' = [eframe EXCEPT ![t] =
            [CallFrame(t, from) EXCEPT !.op = "unregister",
                                       !.client = client]]
       /\ handles' = handles \ {client}
  /\ epc' = [epc EXCEPT ![t] = "unregister_lock"]
  /\ UNCHANGED <<melo_event_clients, melo_event_mutex, next_client,
                 next_event, client_freed, event_log>>
  /\ UNCHANGED outside_event_vars

\* Mutant: the client stays in the list.
UnregisterRemove_Keep(list, client) == list

\* melo_event_clients = g_list_remove (melo_event_clients, client)
UnregisterRemove(list, client) == SelectSeq(list, LAMBDA c : c # client)

\* G_LOCK; g_list_remove; G_UNLOCK.
unregister_locked(t) ==
  /\ epc[t] = "unregister_lock"
  /\ G_LOCK(t)
  /\ melo_event_clients' =
       UnregisterRemove(melo_event_clients, eframe[t].client)
  /\ epc' = [epc EXCEPT ![t] = "unregister_free"]
  /\ UNCHANGED <<melo_event_mutex, next_client, next_event, handles,
                 client_freed, eframe, event_log>>
  /\ UNCHANGED outside_event_vars

\* g_slice_free (MeloEventClient, client); return.
unregister_free(t) ==
  /\ epc[t] = "unregister_free"
  /\ client_freed' = client_freed \cup {eframe[t].client}
  /\ epc' = [epc EXCEPT ![t] = "done"]
  /\ UNCHANGED <<melo_event_clients, melo_event_mutex, next_client,
                 next_event, handles, eframe, event_log>>
  /\ UNCHANGED outside_event_vars

\* melo_event_new (type, event, id, data, free_data_func)
melo_event_new(t, from) ==
  /\ epc[t] = from
  /\ next_event <= MaxEvents
  /\ \E free_data_func \in BOOLEAN :
       eframe' = [eframe EXCEPT ![t] =
         [CallFrame(t, from) EXCEPT !.op = "new", !.event = next_event,
                                    !.free_data_func = free_data_func]]
  /\ next_event' = next_event + 1
  /\ epc' = [epc EXCEPT ![t] = "new_lock"]
  /\ UNCHANGED <<melo_event_clients, melo_event_mutex, next_client, handles,
                 client_freed, event_log>>
  /\ UNCHANGED outside_event_vars

\* G_LOCK (melo_event_mutex); l = melo_event_clients;
new_locked(t) ==
  /\ epc[t] = "new_lock"
  /\ G_LOCK(t)
  /\ melo_event_mutex' = t
  /\ eframe' = [eframe EXCEPT ![t].l = 1]
  /\ epc' = [epc EXCEPT ![t] = "new_loop"]
  /\ UNCHANGED <<melo_event_clients, next_client, next_event, handles,
                 client_freed, event_log>>
  /\ UNCHANGED outside_event_vars

\* The entry the log gets for a call of the callback of client.
CallbackEntry(client, event) ==
  [kind |-> "callback", client |-> client, event |-> event]

\* The entry the log gets for a call of the destructor of the payload.
FreeEntry(event) == [kind |-> "free", client |-> 0, event |-> event]

\* l != NULL: client->callback (client, type, event, id, data, user_data)
new_callback(t) ==
  /\ epc[t] = "new_loop"
  /\ eframe[t].l <= Len(melo_event_clients)
  /\ event_log' = Append(event_log,
       CallbackEntry(melo_event_clients[eframe[t].l], eframe[t].event))
  /\ epc' = [epc EXCEPT ![t] = "in_callback"]
  /\ UNCHANGED <<melo_event_clients, melo_event_mutex, next_client,
                 next_event, handles, client_freed, eframe>>
  /\ UNCHANGED outside_event_vars

\* The callback returns; l = l->next.
callback_return(t) ==
  /\ epc[t] = "in_callback"
  /\ eframe' = [eframe EXCEPT ![t].l = @ + 1]
  /\ epc' = [epc EXCEPT ![t] = "new_loop"]
  /\ UNCHANGED <<melo_event_clients, melo_event_mutex, next_client,
                 next_event, handles, client_freed, event_log>>
  /\ UNCHANGED outside_event_vars

\* l == NULL: G_UNLOCK (melo_event_mutex)
new_unlock(t) ==
  /\ epc[t] = "new_loop"
  /\ eframe[t].l > Len(melo_event_clients)
  /\ melo_event_mutex' = "free"
  /\ epc' = [epc EXCEPT ![t] = "new_free"]
  /\ UNCHANGED <<melo_event_clients, next_client, next_event, handles,
                 client_freed, eframe, event_log>>
  /\ UNCHANGED outside_event_vars

\* Mutant: the destructor is called twice.
FreeData_Twice(log, free_data_func, event) ==
  IF free_data_func
  THEN Append(Append(log, FreeEntry(event)), FreeEntry(event))
  ELSE log

\* if (free_data_func) free_data_func (data);
FreeData(log, free_data_func, event) ==
  IF free_data_func THEN Append(log, FreeEntry(event)) ELSE log

new_free(t) ==
  /\ epc[t] = "new_free"
  /\ event_log' =
       FreeData(event_log, eframe[t].free_data_func, eframe[t].event)
  /\ epc' = [epc EXCEPT ![t] = "done"]
  /\ UNCHANGED <<melo_event_clients, melo_event_mutex, next_client,
                 next_event, handles, client_freed, eframe>>
  /\ UNCHANGED outside_event_vars

\* The call returns to where it was made: to the caller outside, or to the
\* callback that made it.
EventReturn(t) ==
  /\ epc[t] = "done"
  /\ IF eframe[t].outer = <<>>
     THEN /\ epc' = [epc EXCEPT ![t] = "idle"]
          /\ eframe' = [eframe EXCEPT ![t] = EmptyEFrame]
     ELSE /\ epc' = [epc EXCEPT ![t] = "in_callback"]
          /\ eframe' = [eframe EXCEPT ![t] = eframe[t].outer[1]]
  /\ UNCHANGED <<melo_event_clients, melo_event_mutex, next_client,
                 next_event, handles, client_freed, event_log>>
  /\ UNCHANGED outside_event_vars

\* The steps inside the dispatcher, wherever the call came from.
EventStep(t) ==
  \/ register_locked(t)
  \/ unregister_locked(t)
  \/ unregister_free(t)
  \/ new_locked(t)
  \/ new_callback(t)
  \/ callback_return(t)
  \/ new_unlock(t)
  \/ new_free(t)
  \/ EventReturn(t)

\* Callbacks that return without calling the dispatcher.
NextEvent ==
  \/ \E t \in Registrars :
       \/ melo_event_register(t, "idle")
       \/ melo_event_unregister(t, "idle")
  \/ \E t \in Publishers : melo_event_new(t, "idle")
  \/ \E t \in EventThreads : EventStep(t)

InitDispatcher == Init /\ player = Player0

SpecEvent == InitDispatcher /\ [][NextEvent]_vars

\* Callbacks that may call the dispatcher before they return.
NextReenter ==
  \/ \E t \in Registrars :
       \/ melo_event_register(t, "idle")
       \/ melo_event_unregister(t, "idle")
  \/ \E t \in Publishers :
       \/ melo_event_new(t, "idle")
       \/ melo_event_register(t, "in_callback")
       \/ melo_event_unregister(t, "in_callback")
       \/ melo_event_new(t, "in_callback")
  \/ \E t \in EventThreads : EventStep(t)

SpecReenter == InitDispatcher /\ [][NextReenter]_vars

\* Every thread publishes events, and registers and unregisters clients;
\* the callbacks return without calling the dispatcher.
NextPublish ==
  \E t \in EventThreads :
    \/ melo_event_register(t, "idle")
    \/ melo_event_unregister(t, "idle")
    \/ melo_event_new(t, "idle")
    \/ EventStep(t)

SpecPublish == InitDispatcher /\ [][NextPublish]_vars

(* ------------------------------------------------------------------ *)
(* Generators and parsers of player events: melo_event_player_* and     *)
(* melo_event_player_*_parse.  The generator hands data to              *)
(* melo_event_new, which calls the callbacks before it returns; the     *)
(* callback applies the parser of the sub-type to data.                 *)
(* ------------------------------------------------------------------ *)
\* MeloPlayerState
MeloPlayerStates ==
  {"NONE", "LOADING", "BUFFERING", "PLAYING", "PAUSED_LOADING",
   "PAUSED_BUFFERING", "PAUSED", "STOPPED", "ERROR"}

\* The values the generators are called with.
Percents == {0, 50, 100}
Gints == {G_MININT, -1, 0, 1, 180000, G_MAXINT}
Gdoubles == {"0.0", "0.5", "1.0"}
HeapPointers(objects) ==
  {NullPointer} \cup
    { [kind |-> "heap", at |-> o, hi |-> 0, lo |-> 0] : o \in objects }

\* (gpointer) &local
AddressOf(slot) == [kind |-> "stack", at |-> slot, hi |-> 0, lo |-> 0]

\* A parameter or local of the generator, with its C type.
Cell(type, value) == [type |-> type, value |-> value]

\* *((type *) data): defined while the generator that owns the object
\* runs and the object has the type read.
Deref(type, p) ==
  IF p.kind = "stack" /\ p.at \in DOMAIN stack /\ stack[p.at].type = type
  THEN stack[p.at].value
  ELSE "<undefined>"

\* GINT_TO_POINTER (i): ((gpointer) (glong) (i)), the sign is extended.
GINT_TO_POINTER(i) ==
  [kind |-> "int", at |-> "", hi |-> IF i < 0 THEN -1 ELSE 0, lo |-> i]

\* Mutant: the upper half of the pointer is taken.
GPOINTER_TO_INT_High(p) == p.hi

\* GPOINTER_TO_INT (p): ((gint) (glong) (p)), the lower 32 bits are kept.
GPOINTER_TO_INT(p) == p.lo

\* The sub-types of player events with a parser, and the arguments their
\* generators take.
GeneratorInputs ==
  { [event |-> "NEW", args |-> <<i>>] : i \in HeapPointers({"info1"}) }
  \cup { [event |-> "STATUS", args |-> <<st>>] :
            st \in HeapPointers({"status1", "status2"}) }
  \cup { [event |-> "STATE", args |-> <<st>>] : st \in MeloPlayerStates }
  \cup { [event |-> "BUFFERING", args |-> <<st, percent>>] :
            st \in MeloPlayerStates, percent \in Percents }
  \cup { [event |-> "SEEK", args |-> <<pos>>] : pos \in Gints }
  \cup { [event |-> "DURATION", args |-> <<d>>] : d \in Gints }
  \cup { [event |-> "PLAYLIST", args |-> <<hp, hn>>] :
            hp \in BOOLEAN, hn \in BOOLEAN }
  \cup { [event |-> "VOLUME", args |-> <<v>>] : v \in Gdoubles }
  \cup { [event |-> "MUTE", args |-> <<m>>] : m \in BOOLEAN }
  \cup { [event |-> "NAME", args |-> <<n>>] :
            n \in HeapPointers({"name1"}) }
  \cup { [event |-> "ERROR", args |-> <<e>>] :
            e \in HeapPointers({"error1"}) }
  \cup { [event |-> "TAGS", args |-> <<tg>>] :
            tg \in HeapPointers({"tags1"}) }

\* The parameters and locals of the generator whose address it passes on.
GeneratorStack(event, args) ==
  CASE event = "STATE" -> [s \in {"state"} |-> Cell("MeloPlayerState", args[1])]
    [] event = "BUFFERING" ->
         [s \in {"evt"} |->
            Cell("MeloEventPlayerBuffering",
                 [state |-> args[1], percent |-> args[2]])]
    [] event = "PLAYLIST" ->
         [s \in {"evt"} |->
            Cell("MeloEventPlayerPlaylist",
                 [has_prev |-> args[1], has_next |-> args[2]])]
    [] event = "VOLUME" -> [s \in {"volume"} |-> Cell("gdouble", args[1])]
    [] event = "MUTE" -> [s \in {"mute"} |-> Cell("gboolean", args[1])]
    [] OTHER -> EmptyTable

\* The data the generator passes to melo_event_new.
GeneratorData(event, args) ==
  CASE event \in {"NEW", "STATUS", "NAME", "ERROR", "TAGS"} -> args[1]
    [] event = "STATE" -> AddressOf("state")
    [] event \in {"BUFFERING", "PLAYLIST"} -> AddressOf("evt")
    [] event \in {"SEEK", "DURATION"} -> GINT_TO_POINTER(args[1])
    [] event = "VOLUME" -> AddressOf("volume")
    [] event = "MUTE" -> AddressOf("mute")

\* melo_event_player_<event> (id, args): the generator reaches the callback
\* of a client inside melo_event_new.
melo_event_player(in) ==
  /\ ppc = "idle"
  /\ generated' = in
  /\ stack' = GeneratorStack(in.event, in.args)
  /\ data' = GeneratorData(in.event, in.args)
  /\ parsed' = <<>>
  /\ ppc' = "in_callback"

\* melo_event_player_<event>_parse (data, ...): what the parser returns and
\* what it stores through its output parameters.
melo_event_player_parse(event, p) ==
  CASE event \in {"NEW", "STATUS", "NAME", "ERROR", "TAGS"} -> <<p>>
    [] event = "STATE" -> <<Deref("MeloPlayerState", p)>>
    [] event = "BUFFERING" ->
         LET evt == Deref("MeloEventPlayerBuffering", p)
         IN <<evt.state, evt.percent>>
    [] event = "PLAYLIST" ->
         LET evt == Deref("MeloEventPlayerPlaylist", p)
         IN <<evt.has_prev, evt.has_next>>
    [] event \in {"SEEK", "DURATION"} -> <<GPOINTER_TO_INT(p)>>
    [] event = "VOLUME" -> <<Deref("gdouble", p)>>
    [] event = "MUTE" -> <<Deref("gboolean", p)>>

\* The callback applies the parser of the sub-type to its data.
callback_parse ==
  /\ ppc = "in_callback"
  /\ parsed' = melo_event_player_parse(generated.event, data)
  /\ ppc' = "parsed"
  /\ UNCHANGED <<generated, stack, data>>

\* The callback and melo_event_new return, and the generator with them: its
\* parameters and locals are gone.
generator_return ==
  /\ ppc = "parsed"
  /\ ppc' = "idle"
  /\ generated' = NoEvent
  /\ stack' = EmptyTable
  /\ data' = NullPointer
  /\ parsed' = <<>>

NextPayload ==
  /\ \/ \E in \in GeneratorInputs : melo_event_player(in)
     \/ callback_parse
     \/ generator_return
  /\ UNCHANGED <<playlist_vars, kept, gint_max, event_vars, system_vars,
                 service_vars>>

SpecPayload == InitDispatcher /\ [][NextPayload]_vars

(* ------------------------------------------------------------------ *)
(* The components together: the locks a thread takes and the calls it   *)
(* makes from one component into another, in the playlist operations,   *)
(* in the status mutation of the player and in melo_event_new.  The     *)
(* data of the playlist is left out: whether the item removed is the    *)
(* current one is a choice.  Two clients are registered.                *)
(* ------------------------------------------------------------------ *)
\* What the steps below leave alone.
outside_system_vars ==
  <<playlist, names, current, player, next_node, pc, frame, player_calls,
    item_refs, kept, gint_max, melo_event_clients, next_client, next_event,
    handles, client_freed, epc, eframe, event_log, payload_vars,
    service_vars>>

\* A call a thread is in: its position, the state and the number of the
\* status mutation it carries, and the cursor l of melo_event_new.
SysFrame(at, state, id) == [at |-> at, state |-> state, id |-> id, l |-> 0]

\* The innermost call of the thread.
Top(t) == sys_stack[t][1]
At(t, at) == sys_stack[t] # <<>> /\ Top(t).at = at

\* The stack with its innermost call replaced, entered below, and left.
Goto(t, f) == [sys_stack EXCEPT ![t] = <<f>> \o Tail(@)]
Push(t, f, g) == [sys_stack EXCEPT ![t] = <<g, f>> \o Tail(@)]
Pop(t) == [sys_stack EXCEPT ![t] = Tail(@)]

\* A thread calls add, get_prev, get_next or get_list: operations that lock
\* the playlist, work, unlock and return.
sys_locked_op(t) ==
  /\ sys_stack[t] = <<>>
  /\ sys_stack' = [sys_stack EXCEPT ![t] =
       <<SysFrame("locked_op_lock", MELO_PLAYER_STATE_NONE, 0)>>]
  /\ UNCHANGED <<mutex, melo_event_mutex, player_lock, player_state,
                 next_mutation, applied, received>>
  /\ UNCHANGED outside_system_vars

\* A thread calls play, remove, or a status mutation of the player.
sys_call(t, op, state) ==
  /\ sys_stack[t] = <<>>
  /\ next_mutation <= MaxMutations
  /\ sys_stack' = [sys_stack EXCEPT ![t] =
       <<SysFrame(op, state, next_mutation)>>]
  /\ next_mutation' = next_mutation + 1
  /\ UNCHANGED <<mutex, melo_event_mutex, player_lock, player_state,
                 applied, received>>
  /\ UNCHANGED outside_system_vars

\* g_mutex_lock (&priv->mutex) of a playlist operation.
playlist_lock(t) ==
  /\ \/ At(t, "locked_op_lock") \/ At(t, "play_lock") \/ At(t, "remove_lock")
  /\ mutex = "free"
  /\ mutex' = t
  /\ sys_stack' = Goto(t, [Top(t) EXCEPT !.at =
       CASE Top(t).at = "locked_op_lock" -> "locked_op_unlock"
         [] Top(t).at = "play_lock" -> "play_unlock"
         [] Top(t).at = "remove_lock" -> "remove_locked"])
  /\ UNCHANGED <<melo_event_mutex, player_lock, player_state, next_mutation,
                 applied, received>>
  /\ UNCHANGED outside_system_vars

\* g_mutex_unlock (&priv->mutex); return.
locked_op_unlock(t) ==
  /\ At(t, "locked_op_unlock")
  /\ mutex' = "free"
  /\ sys_stack' = Pop(t)
  /\ UNCHANGED <<melo_event_mutex, player_lock, player_state, next_mutation,
                 applied, received>>
  /\ UNCHANGED outside_system_vars

\* play: g_mutex_unlock (&priv->mutex), then melo_player_play, which has
\* the player set its state.
play_unlock(t) ==
  /\ At(t, "play_unlock")
  /\ mutex' = "free"
  /\ sys_stack' = Goto(t, [Top(t) EXCEPT !.at = "set_state_lock"])
  /\ UNCHANGED <<melo_event_mutex, player_lock, player_state, next_mutation,
                 applied, received>>
  /\ UNCHANGED outside_system_vars

\* Mutant: remove unlocks the playlist before it calls the player.
RemoveCallLock_Released(t) == "free"

\* remove: the playlist mutex stays with the thread over the call of
\* melo_player_set_state.
RemoveCallLock(t) == t

\* remove: if (element == priv->current) melo_player_set_state (player,
\* MELO_PLAYER_STATE_NONE), under the mutex.
remove_locked(t) ==
  /\ At(t, "remove_locked")
  /\ \E is_current \in BOOLEAN :
       IF is_current
       THEN /\ sys_stack' = Push(t, [Top(t) EXCEPT !.at = "remove_unlink"],
                   SysFrame("set_state_lock", MELO_PLAYER_STATE_NONE,
                            Top(t).id))
            /\ mutex' = RemoveCallLock(t)
       ELSE /\ sys_stack' = Goto(t, [Top(t) EXCEPT !.at = "remove_unlink"])
            /\ UNCHANGED mutex
  /\ UNCHANGED <<melo_event_mutex, player_lock, player_state, next_mutation,
                 applied, received>>
  /\ UNCHANGED outside_system_vars

\* remove: unlink the item, g_mutex_unlock (&priv->mutex), return.
remove_unlock(t) ==
  /\ At(t, "remove_unlink")
  /\ mutex' = IF mutex = t THEN "free" ELSE mutex
  /\ sys_stack' = Pop(t)
  /\ UNCHANGED <<melo_event_mutex, player_lock, player_state, next_mutation,
                 applied, received>>
  /\ UNCHANGED outside_system_vars

\* The status mutation takes the lock of the player.
set_state_lock(t) ==
  /\ At(t, "set_state_lock")
  /\ player_lock = "free"
  /\ player_lock' = t
  /\ sys_stack' = Goto(t, [Top(t) EXCEPT !.at = "set_state_locked"])
  /\ UNCHANGED <<mutex, melo_event_mutex, player_state, next_mutation,
                 applied, received>>
  /\ UNCHANGED outside_system_vars

\* Mutant: the lock of the player is kept over the publication.
SetStateUnlock_Held(t) == t

\* The status mutation releases the lock of the player before it
\* publishes.
SetStateUnlock(t) == "free"

\* The state is set under the lock; the lock is released; the event is
\* published if the state differs from the previous one.
set_state_locked(t) ==
  /\ At(t, "set_state_locked")
  /\ player_state' = Top(t).state
  /\ applied' = Append(applied, Top(t).id)
  /\ player_lock' = SetStateUnlock(t)
  /\ sys_stack' = IF player_state # Top(t).state
                  THEN Goto(t, [Top(t) EXCEPT !.at = "new_lock"])
                  ELSE Pop(t)
  /\ UNCHANGED <<mutex, melo_event_mutex, next_mutation, received>>
  /\ UNCHANGED outside_system_vars

\* melo_event_new: G_LOCK (melo_event_mutex); l = melo_event_clients.
sys_new_lock(t) ==
  /\ At(t, "new_lock")
  /\ melo_event_mutex = "free"
  /\ melo_event_mutex' = t
  /\ sys_stack' = Goto(t, [Top(t) EXCEPT !.at = "new_loop", !.l = 1])
  /\ UNCHANGED <<mutex, player_lock, player_state, next_mutation, applied,
                 received>>
  /\ UNCHANGED outside_system_vars

\* melo_event_new: the callback of the client at l is called.
sys_callback(t) ==
  /\ At(t, "new_loop")
  /\ Top(t).l <= Len(melo_event_clients)
  /\ received' = [received EXCEPT ![melo_event_clients[Top(t).l]] =
       Append(@, Top(t).id)]
  /\ sys_stack' = Goto(t, [Top(t) EXCEPT !.at = "in_callback"])
  /\ UNCHANGED <<mutex, melo_event_mutex, player_lock, player_state,
                 next_mutation, applied>>
  /\ UNCHANGED outside_system_vars

\* The callback calls a playlist operation: it does not re-enter the
\* dispatcher.
callback_calls_playlist(t) ==
  /\ At(t, "in_callback")
  /\ sys_stack' = Push(t, [Top(t) EXCEPT !.at = "callback_called"],
       SysFrame("locked_op_lock", MELO_PLAYER_STATE_NONE, 0))
  /\ UNCHANGED <<mutex, melo_event_mutex, player_lock, player_state,
                 next_mutation, applied, received>>
  /\ UNCHANGED outside_system_vars

\* The callback returns; l = l->next.
sys_callback_return(t) ==
  /\ At(t, "in_callback") \/ At(t, "callback_called")
  /\ sys_stack' = Goto(t, [Top(t) EXCEPT !.at = "new_loop", !.l = @ + 1])
  /\ UNCHANGED <<mutex, melo_event_mutex, player_lock, player_state,
                 next_mutation, applied, received>>
  /\ UNCHANGED outside_system_vars

\* melo_event_new: G_UNLOCK (melo_event_mutex); return (the payload of a
\* state event has no destructor).  A lock of the player that the
\* mutation still held is released when the mutation returns.
sys_new_unlock(t) ==
  /\ At(t, "new_loop")
  /\ Top(t).l > Len(melo_event_clients)
  /\ melo_event_mutex' = "free"
  /\ player_lock' = IF player_lock = t THEN "free" ELSE player_lock
  /\ sys_stack' = Pop(t)
  /\ UNCHANGED <<mutex, player_state, next_mutation, applied, received>>
  /\ UNCHANGED outside_system_vars

NextSystem ==
  \E t \in SysThreads :
    \/ sys_locked_op(t)
    \/ sys_call(t, "play_lock", "PLAYING")
    \/ sys_call(t, "remove_lock", MELO_PLAYER_STATE_NONE)
    \/ \E state \in {"PLAYING", "PAUSED"} :
         sys_call(t, "set_state_lock", state)
    \/ playlist_lock(t)
    \/ locked_op_unlock(t)
    \/ play_unlock(t)
    \/ remove_locked(t)
    \/ remove_unlock(t)
    \/ set_state_lock(t)
    \/ set_state_locked(t)
    \/ sys_new_lock(t)
    \/ sys_callback(t)
    \/ callback_calls_playlist(t)
    \/ sys_callback_return(t)
    \/ sys_new_unlock(t)

\* Two clients have been registered, 1 before 2.
InitSystem ==
  /\ InitPlaylist /\ player = Player0 /\ gint_max = G_MAXINT
  /\ InitPayload /\ InitPlayer /\ InitService
  /\ melo_event_clients = <<2, 1>>
  /\ melo_event_mutex = "free"
  /\ next_client = MaxClients + 1
  /\ next_event = 1
  /\ handles = Subscribers
  /\ client_freed = {}
  /\ epc = [t \in EventThreads |-> "idle"]
  /\ eframe = [t \in EventThreads |-> EmptyEFrame]
  /\ event_log = <<>>

SpecSystem == InitSystem /\ [][NextSystem]_vars

(* ------------------------------------------------------------------ *)
(* The JSON-RPC interface of the browsers (melo_browser_jsonrpc.c): the *)
(* method get_list, and the registry and the dispatch of melo_jsonrpc   *)
(* the method is registered with.  One thread serves a request at a     *)
(* time; methods and browsers come and go between its steps.            *)
(* ------------------------------------------------------------------ *)
\* What the steps below leave alone.
outside_rpc_vars ==
  <<playlist_vars, kept, gint_max, event_vars, payload_vars, system_vars,
    status_vars, file_vars>>

MELO_JSONRPC_ERROR_INVALID_PARAMS == "invalid params"
MELO_JSONRPC_ERROR_METHOD_NOT_FOUND == "method not found"

IsNull(node) == node.type = "NULL"

\* melo_jsonrpc_build_error_node: the error object of a response.
melo_jsonrpc_build_error_node(code, message) ==
  JsonNode("error", "", <<JsonString(code), JsonString(message)>>)

ErrorCode(error) == error.items[1].value
ErrorMessage(error) == error.items[2].value

\* One entry of the schema of a method; a member is required unless the
\* schema says otherwise.
Param(name, type, required) ==
  [name |-> name, type |-> type, required |-> required]

\* The schema of get_list with path optional.
GetListParams_PathOptional ==
  << Param("id", "string", TRUE), Param("path", "string", FALSE),
     Param("fields", "array", FALSE), Param("sort", "object", FALSE) >>

\* The schema of get_list: .params of the entry of the table.
GetListParams ==
  << Param("id", "string", TRUE), Param("path", "string", TRUE),
     Param("fields", "array", FALSE), Param("sort", "object", FALSE) >>

\* The table of the methods of the browsers.
melo_browser_jsonrpc_methods ==
  << [method |-> "get_list", params |-> GetListParams, result |-> "array",
      callback |-> "melo_browser_jsonrpc_get_list"] >>

G_N_ELEMENTS(arr) == Len(arr)

\* The requests: the namespaces and methods callers name, and the values
\* a member of params has or lacks.
Namespaces == {"browser", "player"}
MethodNames == {"get_list", "get_info"}
MemberValues ==
  [id     |-> {Absent, JsonString("file"), JsonString("missing"),
               JsonInt("7")},
   path   |-> {Absent, JsonString("/"), JsonInt("7")},
   fields |-> {Absent, JsonArray(<<>>), JsonString("name")},
   sort   |-> {Absent, JsonObject(<<>>)}]
Payloads ==
  {NullNode} \cup
  { JsonObject(<<id, path, fields, sort>>) :
      id \in MemberValues.id, path \in MemberValues.path,
      fields \in MemberValues.fields, sort \in MemberValues.sort }

\* The lists a browser returns: MeloBrowserItems with a name and a type.
BrowserItems == [name : {"a", "b"}, type : {"directory", "file"}]
BrowserLists == UNION { [1..n -> BrowserItems] : n \in 0..MaxItems }

\* The validation of params against the schema s_params: every member
\* present has the type of the schema, every required member is present.
CheckParams(s_params, params) ==
  /\ params.type = "object"
  /\ \A p \in 1..Len(s_params) :
       LET member == Member(params, s_params[p].name)
       IN  IF member.type = "absent"
           THEN ~s_params[p].required
           ELSE member.type = s_params[p].type

\* melo_jsonrpc_get_object: the object of the params that fit the schema,
\* or NULL and the error "invalid params".
melo_jsonrpc_get_object(s_params, params, error) ==
  IF CheckParams(s_params, params)
  THEN [obj |-> params, error |-> error]
  ELSE [obj |-> NullNode,
        error |-> melo_jsonrpc_build_error_node(
                    MELO_JSONRPC_ERROR_INVALID_PARAMS, "Invalid params")]

json_object_get_string_member(obj, member) == Member(obj, member).value

melo_browser_get_browser_by_id(id) ==
  IF id \in browsers THEN id ELSE NullBrowser

\* melo_browser_jsonrpc_get_list up to the return on params that do not
\* fit the schema.
melo_browser_jsonrpc_get_list ==
  /\ rpc_pc = "callback"
  /\ LET got == melo_jsonrpc_get_object(rpc.s_params, rpc.params, rpc.error)
     IN  /\ rpc' = [rpc EXCEPT !.obj = got.obj, !.error = got.error,
                               !.obj_refs = IF IsNull(got.obj) THEN 0 ELSE 1]
         /\ rpc_pc' = IF IsNull(got.obj) THEN "returned" ELSE "get_browser"
  /\ UNCHANGED <<methods, browsers, registry_call>>
  /\ UNCHANGED outside_rpc_vars

\* The error melo_browser_jsonrpc_get_browser leaves with no browser found.
GetBrowserError_Kept(bro, error) == error

\* The error melo_browser_jsonrpc_get_browser leaves in *error.
GetBrowserError(bro, error) ==
  IF bro # NullBrowser
  THEN error
  ELSE melo_jsonrpc_build_error_node(MELO_JSONRPC_ERROR_INVALID_PARAMS,
                                     "No browser found!")

\* Whether the method goes on to the list with a NULL browser.
NoBrowserReturns_Never(bro) == FALSE

\* if (!bro) { json_object_unref (obj); return; }
NoBrowserReturns(bro) == bro = NullBrowser

\* melo_browser_jsonrpc_get_browser and the return of the method when it
\* found no browser.
melo_browser_jsonrpc_get_browser ==
  /\ rpc_pc = "get_browser"
  /\ LET id == json_object_get_string_member(rpc.obj, "id")
         bro == melo_browser_get_browser_by_id(id)
     IN  /\ rpc' = [rpc EXCEPT
                      !.bro = bro,
                      !.bro_refs = IF bro # NullBrowser THEN 1 ELSE 0,
                      !.error = GetBrowserError(bro, @),
                      !.obj_refs = IF NoBrowserReturns(bro) THEN 0 ELSE @,
                      !.invoked = Append(@, "melo_browser_get_browser_by_id")]
         /\ rpc_pc' = IF NoBrowserReturns(bro) THEN "returned" ELSE "get_list"
  /\ UNCHANGED <<methods, browsers, registry_call>>
  /\ UNCHANGED outside_rpc_vars

\* The array with the first item left out.
ListToArray_DropFirst(list) ==
  JsonArray([p \in 1..(Len(list) - 1) |->
               JsonObject(<<JsonString(list[p + 1].name),
                            JsonString(list[p + 1].type)>>)])

\* The loop over the list: one object with the members name and type per
\* item, in the order of the list.
ListToArray(list) ==
  JsonArray([p \in 1..Len(list) |->
               JsonObject(<<JsonString(list[p].name),
                            JsonString(list[p].type)>>)])

\* The rest of melo_browser_jsonrpc_get_list: the list of the browser at
\* path, and the array made of it as the result.
browser_get_list ==
  /\ rpc_pc = "get_list"
  /\ \E list \in BrowserLists :
       rpc' = [rpc EXCEPT
                 !.path = json_object_get_string_member(rpc.obj, "path"),
                 !.list = list,
                 !.obj_refs = 0,
                 !.bro_refs = 0,
                 !.result = ListToArray(list),
                 !.invoked = Append(@, "melo_browser_get_list")]
  /\ rpc_pc' = "returned"
  /\ UNCHANGED <<methods, browsers, registry_call>>
  /\ UNCHANGED outside_rpc_vars

\* The steps of the method.
CallbackStep ==
  \/ melo_browser_jsonrpc_get_list
  \/ melo_browser_jsonrpc_get_browser
  \/ browser_get_list

\* melo_jsonrpc_register_methods: the registry with the count methods of
\* the batch added under the namespace.
melo_jsonrpc_register_methods(registry, namespace, batch, count) ==
  registry \cup
  { [namespace |-> namespace, method |-> batch[p].method,
     params |-> batch[p].params, callback |-> batch[p].callback] :
      p \in 1..count }

\* melo_jsonrpc_unregister_methods: the registry without them.
melo_jsonrpc_unregister_methods(registry, namespace, batch, count) ==
  { e \in registry :
      ~ \E p \in 1..count :
          e.namespace = namespace /\ e.method = batch[p].method }

melo_browser_register_methods ==
  /\ methods' = melo_jsonrpc_register_methods(
                  methods, "browser", melo_browser_jsonrpc_methods,
                  G_N_ELEMENTS(melo_browser_jsonrpc_methods))
  /\ registry_call' = "register"
  /\ UNCHANGED <<browsers, rpc_pc, rpc>>
  /\ UNCHANGED outside_rpc_vars

\* The namespace unregister names, misspelt.
UnregisterNamespace_Other == "browsers"

UnregisterNamespace == "browser"

melo_browser_unregister_methods ==
  /\ methods' = melo_jsonrpc_unregister_methods(
                  methods, UnregisterNamespace, melo_browser_jsonrpc_methods,
                  G_N_ELEMENTS(melo_browser_jsonrpc_methods))
  /\ registry_call' = "unregister"
  /\ UNCHANGED <<browsers, rpc_pc, rpc>>
  /\ UNCHANGED outside_rpc_vars

\* A browser is created with the id, or the last reference to it is dropped.
melo_browser_new(id) ==
  /\ id \notin browsers
  /\ browsers' = browsers \cup {id}
  /\ UNCHANGED <<methods, rpc_pc, rpc, registry_call>>
  /\ UNCHANGED outside_rpc_vars

melo_browser_finalize(id) ==
  /\ id \in browsers
  /\ browsers' = browsers \ {id}
  /\ UNCHANGED <<methods, rpc_pc, rpc, registry_call>>
  /\ UNCHANGED outside_rpc_vars

\* The dispatch of a request: the namespace and the method are looked up,
\* the params validated against the schema, the callback invoked and its
\* result or error made the response.
melo_jsonrpc_dispatch ==
  /\ rpc_pc = "idle"
  /\ \E namespace \in Namespaces, method \in MethodNames, params \in Payloads :
       rpc' = [NoRpc EXCEPT !.namespace = namespace, !.method = method,
                            !.params = params]
  /\ rpc_pc' = "lookup"
  /\ UNCHANGED <<methods, browsers, registry_call>>
  /\ UNCHANGED outside_rpc_vars

MethodEntries(namespace, method) ==
  { e \in methods : e.namespace = namespace /\ e.method = method }

dispatch_lookup ==
  /\ rpc_pc = "lookup"
  /\ IF MethodEntries(rpc.namespace, rpc.method) # {}
     THEN LET e == CHOOSE e \in MethodEntries(rpc.namespace, rpc.method) : TRUE
          IN  /\ rpc' = [rpc EXCEPT !.s_params = e.params,
                                    !.callback = e.callback]
              /\ rpc_pc' = "validate"
     ELSE /\ rpc' = [rpc EXCEPT !.error = melo_jsonrpc_build_error_node(
                                  MELO_JSONRPC_ERROR_METHOD_NOT_FOUND,
                                  "Method not found")]
          /\ rpc_pc' = "respond"
  /\ UNCHANGED <<methods, browsers, registry_call>>
  /\ UNCHANGED outside_rpc_vars

dispatch_validate ==
  /\ rpc_pc = "validate"
  /\ IF CheckParams(rpc.s_params, rpc.params)
     THEN /\ rpc' = [rpc EXCEPT !.invoked = Append(@, rpc.callback)]
          /\ rpc_pc' = "callback"
     ELSE /\ rpc' = [rpc EXCEPT !.error = melo_jsonrpc_build_error_node(
                                  MELO_JSONRPC_ERROR_INVALID_PARAMS,
                                  "Invalid params")]
          /\ rpc_pc' = "respond"
  /\ UNCHANGED <<methods, browsers, registry_call>>
  /\ UNCHANGED outside_rpc_vars

\* The response: {error: ...} when an error is set, {result: ...} otherwise.
Response(result, error) ==
  IF ~IsNull(error)
  THEN JsonNode("response-error", "", <<error>>)
  ELSE JsonNode("response-result", "", <<result>>)

dispatch_respond ==
  /\ rpc_pc \in {"returned", "respond"}
  /\ rpc' = [rpc EXCEPT !.response = Response(rpc.result, rpc.error)]
  /\ rpc_pc' = "idle"
  /\ UNCHANGED <<methods, browsers, registry_call>>
  /\ UNCHANGED outside_rpc_vars

NextRpc ==
  \/ melo_jsonrpc_dispatch
  \/ dispatch_lookup
  \/ dispatch_validate
  \/ CallbackStep
  \/ dispatch_respond
  \/ melo_browser_register_methods
  \/ melo_browser_unregister_methods
  \/ \E id \in BrowserIds : melo_browser_new(id) \/ melo_browser_finalize(id)

InitRemote == Init /\ player = Player0

SpecRpc == InitRemote /\ [][NextRpc]_vars

(* ------------------------------------------------------------------ *)
(* The method get_list called with the schema of its entry and with any *)
(* params, as the callback of the entry can be                          *)
(* ------------------------------------------------------------------ *)
callback_call ==
  /\ rpc_pc = "idle"
  /\ \E params \in Payloads :
       rpc' = [NoRpc EXCEPT
                 !.namespace = "browser",
                 !.method = melo_browser_jsonrpc_methods[1].method,
                 !.params = params,
                 !.s_params = melo_browser_jsonrpc_methods[1].params,
                 !.callback = melo_browser_jsonrpc_methods[1].callback,
                 !.invoked = <<melo_browser_jsonrpc_methods[1].callback>>]
  /\ rpc_pc' = "callback"
  /\ UNCHANGED <<methods, browsers, registry_call>>
  /\ UNCHANGED outside_rpc_vars

callback_returned ==
  /\ rpc_pc = "returned"
  /\ rpc_pc' = "idle"
  /\ UNCHANGED <<methods, browsers, rpc, registry_call>>
  /\ UNCHANGED outside_rpc_vars

NextCallback ==
  \/ callback_call
  \/ CallbackStep
  \/ callback_returned
  \/ \E id \in BrowserIds : melo_browser_new(id) \/ melo_browser_finalize(id)

SpecCallback == InitRemote /\ [][NextCallback]_vars

(* ------------------------------------------------------------------ *)
(* The status of a player: the state machine, reset, the status         *)
(* mutations, the state requests of callers and get_status.  Every call *)
(* runs under the lock of the player and is one step here; the events   *)
(* it publishes once the lock is released are kept with the call.       *)
(* ------------------------------------------------------------------ *)
\* What the calls on the player leave alone.
outside_status_vars ==
  <<playlist_vars, kept, gint_max, event_vars, payload_vars, system_vars,
    rpc_vars, file_vars>>

MELO_PLAYER_STATE_LOADING == "LOADING"
MELO_PLAYER_STATE_BUFFERING == "BUFFERING"
MELO_PLAYER_STATE_PLAYING == "PLAYING"
MELO_PLAYER_STATE_PAUSED_LOADING == "PAUSED_LOADING"
MELO_PLAYER_STATE_PAUSED_BUFFERING == "PAUSED_BUFFERING"
MELO_PLAYER_STATE_PAUSED == "PAUSED"
MELO_PLAYER_STATE_STOPPED == "STOPPED"
MELO_PLAYER_STATE_ERROR == "ERROR"

\* The values the calls of the model pass.
MediaNames == {"song"}
MediaTags == {"tags1"}
ErrorMessages == {"failed"}
Commands == {"add", "load", "play"}

\* The event melo_event_player_<event> publishes for the player.
PlayerEvent(event, args) == [event |-> event, args |-> args]

\* What the calls since the last get_status did, after one more call:
\* one of them wrote the status, or none did.
Since(wrote) ==
  IF wrote \/ since_poll = "changed" THEN "changed" ELSE "same"

\* The timestamp a write leaves unchanged.
WriteTime_Same(time) == time

\* The timestamp of a write: later than every timestamp before it.
WriteTime(time) == time + 1

\* A call on the player: the snapshot it leaves, whether it wrote it, what
\* it returns and the events it publishes.
PlayerCall(op, cmd, state, ret, events, new_status, wrote) ==
  /\ wrote => timestamp < MaxWrites
  /\ status' = new_status
  /\ timestamp' = IF wrote THEN WriteTime(timestamp) ELSE timestamp
  /\ status_call' = [op |-> op, cmd |-> cmd, state |-> state, ret |-> ret,
                     events |-> events, before |-> status]
  /\ since_poll' = Since(wrote)
  /\ UNCHANGED polled
  /\ UNCHANGED outside_status_vars

\* ERROR is terminal: no state is set while the player is in it.
Terminal_Never(s) == FALSE

Terminal(s) == s.state = MELO_PLAYER_STATE_ERROR

\* reset that takes ERROR as any other state.
ResetFails_Never(state) == FALSE

\* reset fails when it is called with the state ERROR.
ResetFails(state) == state = MELO_PLAYER_STATE_ERROR

\* reset (state, name, tags), called by the player when an add, a load or
\* a play begins a new media: the active snapshot is replaced by a fresh
\* one, or nothing is done and FALSE returned for the state ERROR.
melo_player_reset_status(cmd, state, name, tags) ==
  IF ResetFails(state)
  THEN PlayerCall("reset_status", cmd, state, "FALSE", <<>>, status, FALSE)
  ELSE PlayerCall("reset_status", cmd, state, "TRUE",
                  <<PlayerEvent("STATUS", <<state>>)>>,
                  FreshStatus(state, name, tags), TRUE)

\* The snapshot with the state set.
SetState(s, state) == IF Terminal(s) THEN s ELSE [s EXCEPT !.state = state]

\* The STATE event published whatever the state was.
StateEvents_Always(before, after) ==
  <<PlayerEvent("STATE", <<after.state>>)>>

\* The STATE event is published if and only if the state differs.
StateEvents(before, after) ==
  IF after.state # before.state
  THEN <<PlayerEvent("STATE", <<after.state>>)>>
  ELSE <<>>

\* set_state of the status: the player reports the state it is in.
melo_player_set_status_state(state) ==
  LET after == SetState(status, state)
  IN  PlayerCall("set_status_state", "", state, "void",
                 StateEvents(status, after), after, ~Terminal(status))

\* The state a request of a caller leads to with PAUSED taken as given.
Effective_Plain(from, request) == request

\* The state a request of a caller leads to: a pause while the media is
\* being loaded or buffered keeps the load and the buffering pending.
Effective(from, request) ==
  IF request = MELO_PLAYER_STATE_PAUSED
  THEN CASE from = MELO_PLAYER_STATE_LOADING ->
              MELO_PLAYER_STATE_PAUSED_LOADING
         [] from = MELO_PLAYER_STATE_BUFFERING ->
              MELO_PLAYER_STATE_PAUSED_BUFFERING
         [] OTHER -> request
  ELSE request

\* The state set_state returns as the new one.
PreviousState_New(before, after) == after.state

\* set_state returns the state the player was in.
PreviousState(before, after) == before.state

\* melo_player_set_state: a caller requests a state; the previous state is
\* returned.
melo_player_set_state(request) ==
  LET after == SetState(status, Effective(status.state, request))
  IN  PlayerCall("set_state", "", request, PreviousState(status, after),
                 StateEvents(status, after), after, ~Terminal(status))

\* set_buffering (state, percent).
melo_player_set_status_buffering(state, percent) ==
  PlayerCall("set_status_buffering", "", state, "void",
             <<PlayerEvent("BUFFERING", <<state>>)>>,
             IF Terminal(status)
             THEN status
             ELSE [status EXCEPT !.state = state, !.buffer_percent = percent],
             ~Terminal(status))

\* The mutations of one field each; every one publishes its event, changed
\* or not.
melo_player_set_status_pos(pos) ==
  PlayerCall("set_status_pos", "", "", "void", <<PlayerEvent("SEEK", <<>>)>>,
             [status EXCEPT !.pos = pos], TRUE)

melo_player_set_status_duration(duration) ==
  PlayerCall("set_status_duration", "", "", "void",
             <<PlayerEvent("DURATION", <<>>)>>,
             [status EXCEPT !.duration = duration], TRUE)

melo_player_set_status_playlist(has_prev, has_next) ==
  PlayerCall("set_status_playlist", "", "", "void",
             <<PlayerEvent("PLAYLIST", <<>>)>>,
             [status EXCEPT !.has_prev = has_prev, !.has_next = has_next],
             TRUE)

melo_player_set_status_volume(volume) ==
  PlayerCall("set_status_volume", "", "", "void",
             <<PlayerEvent("VOLUME", <<volume>>)>>,
             [status EXCEPT !.volume = volume], TRUE)

melo_player_set_status_mute(mute) ==
  PlayerCall("set_status_mute", "", "", "void",
             <<PlayerEvent("MUTE", <<>>)>>,
             [status EXCEPT !.mute = mute], TRUE)

melo_player_set_status_name(name) ==
  PlayerCall("set_status_name", "", "", "void",
             <<PlayerEvent("NAME", <<name>>)>>,
             [status EXCEPT !.name = name], TRUE)

melo_player_set_status_tags(tags) ==
  PlayerCall("set_status_tags", "", "", "void",
             <<PlayerEvent("TAGS", <<tags>>)>>,
             [status EXCEPT !.tags = tags], TRUE)

\* The snapshot set_error leaves: the message, and the state ERROR.
StatusAfterError(s, error) ==
  [s EXCEPT !.state = MELO_PLAYER_STATE_ERROR, !.error = error]

melo_player_set_status_error(error) ==
  PlayerCall("set_status_error", "", MELO_PLAYER_STATE_ERROR, "void",
             <<PlayerEvent("ERROR", <<error>>)>>,
             StatusAfterError(status, error), TRUE)

\* get_status: the current snapshot and the timestamp of its last write.
\* The caller keeps the timestamp it got before and what was called between.
melo_player_get_status ==
  /\ polled' = [polls |-> IF polled.polls < 2 THEN polled.polls + 1 ELSE 2,
                timestamp |-> timestamp, status |-> status,
                previous |-> polled.timestamp, between |-> since_poll]
  /\ since_poll' = "none"
  /\ UNCHANGED <<status, timestamp, status_call>>
  /\ UNCHANGED outside_status_vars

NextPlayer ==
  \/ \E cmd \in Commands, name \in MediaNames, tags \in MediaTags,
        state \in {MELO_PLAYER_STATE_LOADING, MELO_PLAYER_STATE_ERROR} :
       melo_player_reset_status(cmd, state, name, tags)
  \/ \E state \in MeloPlayerStates :
       \/ melo_player_set_status_state(state)
       \/ melo_player_set_state(state)
  \/ \E state \in {MELO_PLAYER_STATE_BUFFERING,
                   MELO_PLAYER_STATE_PAUSED_BUFFERING} :
       melo_player_set_status_buffering(state, 50)
  \/ melo_player_set_status_pos(1000)
  \/ melo_player_set_status_duration(180000)
  \/ melo_player_set_status_playlist(TRUE, TRUE)
  \/ melo_player_set_status_volume("0.5")
  \/ melo_player_set_status_mute(TRUE)
  \/ \E name \in MediaNames : melo_player_set_status_name(name)
  \/ \E tags \in MediaTags : melo_player_set_status_tags(tags)
  \/ \E error \in ErrorMessages : melo_player_set_status_error(error)
  \/ melo_player_get_status

SpecPlayer == InitRemote /\ [][NextPlayer]_vars

(* ------------------------------------------------------------------ *)
(* The file browser (melo_browser_file.c): the list of volumes and      *)
(* mounts with its mutex, the handlers of the volume monitor, and       *)
(* get_list, which mounts a volume that has no mount and waits for the  *)
(* end of the mount operation.                                          *)
(* ------------------------------------------------------------------ *)
\* What the file browser leaves alone.
outside_file_vars ==
  <<playlist_vars, kept, gint_max, event_vars, payload_vars, system_vars,
    rpc_vars, status_vars>>

\* The GVolume and GMount objects of the volume monitor, named by the id
\* melo_browser_file_set_id gives each.
Volumes == {"vol1"}
Mounts == {"mnt1"}
FileObjects == Volumes \cup Mounts

\* The paths get_list is called with: a path that does not begin with '/',
\* the root, a local path and the paths of volume ids.
FilePaths == {"bad", "/", "/local", "/vol1", "/mnt1", "/none"}

\* The id of the volume path: the path without its leading '/'.
VolumeId(path) ==
  CASE path = "/vol1" -> "vol1"
    [] path = "/mnt1" -> "mnt1"
    [] OTHER -> "none"

\* What GLib leaves undefined of a GMutex: a lock by the thread that
\* holds it blocks or returns at once, and an unlock by a thread that
\* does not hold it releases the mutex or is refused.
GMutexBuilds ==
  [relock : {"blocks", "returns"}, unlock : {"released", "refused"}]

\* The process starts with the file browser and any GMutex.
InitFileBrowser ==
  /\ InitPlaylist /\ player = Player0 /\ gint_max = G_MAXINT
  /\ InitEvent /\ InitPayload /\ InitPlayer /\ InitRpc /\ InitStatus
  /\ InitFile
  /\ gmutex \in GMutexBuilds

\* vms_added: the object is inserted and gets its id, under the mutex.
vms_added(obj) ==
  /\ obj \notin ids
  /\ file_mutex = "free"
  /\ ids' = ids \cup {obj}
  /\ UNCHANGED <<file_mutex, mounts, fpc, fframe, wait_mutex, mount_task,
                 gmutex>>
  /\ UNCHANGED outside_file_vars

\* vms_removed: the id and the object are removed, under the mutex.
vms_removed(obj) ==
  /\ obj \in ids
  /\ file_mutex = "free"
  /\ ids' = ids \ {obj}
  /\ UNCHANGED <<file_mutex, mounts, fpc, fframe, wait_mutex, mount_task,
                 gmutex>>
  /\ UNCHANGED outside_file_vars

\* Where get_list goes for a path.
PathBranch(path) ==
  CASE path = "bad" -> "done"
    [] path = "/" -> "list_volumes"
    [] path = "/local" -> "local_list"
    [] OTHER -> "volume_lock"

\* melo_browser_file_get_list (browser, path): the check of the path and
\* the choice of the list.
melo_browser_file_get_list(t) ==
  /\ fpc[t] = "idle"
  /\ \E path \in FilePaths :
       /\ fframe' = [fframe EXCEPT ![t] =
            [NoFileCall EXCEPT !.path = path,
               !.ret = IF PathBranch(path) = "done" THEN "NULL" ELSE "none"]]
       /\ fpc' = [fpc EXCEPT ![t] = PathBranch(path)]
  /\ UNCHANGED <<file_mutex, ids, mounts, wait_mutex, mount_task, gmutex>>
  /\ UNCHANGED outside_file_vars

\* melo_browser_file_list_volumes: the list is read under the mutex.
melo_browser_file_list_volumes(t) ==
  /\ fpc[t] = "list_volumes"
  /\ file_mutex = "free"
  /\ fframe' = [fframe EXCEPT ![t].ret = "list"]
  /\ fpc' = [fpc EXCEPT ![t] = "done"]
  /\ UNCHANGED <<file_mutex, ids, mounts, wait_mutex, mount_task, gmutex>>
  /\ UNCHANGED outside_file_vars

\* melo_browser_file_get_local_list: the directory is listed, or NULL.
melo_browser_file_get_local_list(t) ==
  /\ fpc[t] = "local_list"
  /\ \E ret \in {"list", "NULL"} : fframe' = [fframe EXCEPT ![t].ret = ret]
  /\ fpc' = [fpc EXCEPT ![t] = "done"]
  /\ UNCHANGED <<file_mutex, ids, mounts, wait_mutex, mount_task, gmutex>>
  /\ UNCHANGED outside_file_vars

\* melo_browser_file_get_volume_list: the id is taken from the path and
\* the mutex locked.
volume_lock(t) ==
  /\ fpc[t] = "volume_lock"
  /\ file_mutex = "free"
  /\ file_mutex' = t
  /\ fframe' = [fframe EXCEPT ![t].id = VolumeId(fframe[t].path)]
  /\ fpc' = [fpc EXCEPT ![t] = "volume_lookup"]
  /\ UNCHANGED <<ids, mounts, wait_mutex, mount_task, gmutex>>
  /\ UNCHANGED outside_file_vars

\* Mutant: the mutex is kept over the mount of the volume.
UnlockFound_Kept(t) == t

\* g_mutex_unlock (&priv->mutex), once the object is found and referenced.
UnlockFound(t) == "free"

\* obj = g_hash_table_lookup (priv->ids, id): NULL is returned for an id
\* that is not found; the mutex is unlocked in both cases.
volume_lookup(t) ==
  /\ fpc[t] = "volume_lookup"
  /\ IF fframe[t].id \in ids
     THEN /\ fframe' = [fframe EXCEPT ![t].obj = fframe[t].id]
          /\ file_mutex' = UnlockFound(t)
          /\ fpc' = [fpc EXCEPT ![t] = "volume_mount"]
     ELSE /\ fframe' = [fframe EXCEPT ![t].ret = "NULL"]
          /\ file_mutex' = "free"
          /\ fpc' = [fpc EXCEPT ![t] = "done"]
  /\ UNCHANGED <<ids, mounts, wait_mutex, mount_task, gmutex>>
  /\ UNCHANGED outside_file_vars

\* mount = g_volume_get_mount (vol)
g_volume_get_mount(vol) == IF vol \in mounts THEN vol ELSE ""

\* The mount of the object: the object itself, the mount of the volume,
\* or none, and then the volume is mounted: a mutex is made on the stack
\* and locked, and g_volume_mount is given mount_ready and the mutex.
volume_mount(t) ==
  /\ fpc[t] = "volume_mount"
  /\ LET obj == fframe[t].obj
         mount == IF obj \in Volumes THEN g_volume_get_mount(obj) ELSE obj
     IN IF mount # ""
        THEN /\ fframe' = [fframe EXCEPT ![t].mount = mount]
             /\ fpc' = [fpc EXCEPT ![t] = "volume_list"]
             /\ UNCHANGED <<wait_mutex, mount_task>>
        ELSE /\ wait_mutex' = [wait_mutex EXCEPT ![t] = "locked"]
             /\ mount_task' = [mount_task EXCEPT ![t] = "running"]
             /\ fframe' = [fframe EXCEPT ![t].waited = TRUE]
             /\ fpc' = [fpc EXCEPT ![t] = "volume_wait"]
  /\ UNCHANGED <<file_mutex, ids, mounts, gmutex>>
  /\ UNCHANGED outside_file_vars

\* The mount operation ends, with a mount or without, and the main loop
\* calls mount_ready, which unlocks the mutex of the waiting thread: an
\* unlock by a thread that does not hold the mutex.
mount_ready(t) ==
  /\ mount_task[t] = "running"
  /\ \E mounted \in BOOLEAN :
       mounts' = IF mounted THEN mounts \cup {fframe[t].obj} ELSE mounts
  /\ wait_mutex' = [wait_mutex EXCEPT ![t] =
       IF @ = "locked" /\ gmutex.unlock = "released" THEN "unlocked" ELSE @]
  /\ mount_task' = [mount_task EXCEPT ![t] = "ready"]
  /\ UNCHANGED <<file_mutex, ids, fpc, fframe, gmutex>>
  /\ UNCHANGED outside_file_vars

\* The second g_mutex_lock (&mutex) returns once mount_ready has unlocked
\* the mutex; while the thread itself holds it, the lock blocks or
\* returns at once.
Relocked(t) ==
  \/ wait_mutex[t] = "unlocked"
  \/ wait_mutex[t] = "locked" /\ gmutex.relock = "returns"

\* Wait for the end of the mount operation and get the mount; without a
\* mount NULL is returned.
volume_wait(t) ==
  /\ fpc[t] = "volume_wait"
  /\ Relocked(t)
  /\ wait_mutex' = [wait_mutex EXCEPT ![t] = "cleared"]
  /\ LET mount == g_volume_get_mount(fframe[t].obj)
     IN IF mount # ""
        THEN /\ fframe' = [fframe EXCEPT ![t].mount = mount]
             /\ fpc' = [fpc EXCEPT ![t] = "volume_list"]
        ELSE /\ fframe' = [fframe EXCEPT ![t].ret = "NULL"]
             /\ fpc' = [fpc EXCEPT ![t] = "done"]
  /\ UNCHANGED <<file_mutex, ids, mounts, mount_task, gmutex>>
  /\ UNCHANGED outside_file_vars

\* The root of the mount, the directory of the path and its list; NULL
\* when one of them is missing.
volume_list(t) ==
  /\ fpc[t] = "volume_list"
  /\ \E ret \in {"list", "NULL"} : fframe' = [fframe EXCEPT ![t].ret = ret]
  /\ fpc' = [fpc EXCEPT ![t] = "done"]
  /\ UNCHANGED <<file_mutex, ids, mounts, wait_mutex, mount_task, gmutex>>
  /\ UNCHANGED outside_file_vars

\* get_list has returned; the caller goes on once the mount operation it
\* started has ended.
file_return(t) ==
  /\ fpc[t] = "done"
  /\ mount_task[t] # "running"
  /\ fpc' = [fpc EXCEPT ![t] = "idle"]
  /\ fframe' = [fframe EXCEPT ![t] = NoFileCall]
  /\ wait_mutex' = [wait_mutex EXCEPT ![t] = "none"]
  /\ mount_task' = [mount_task EXCEPT ![t] = "none"]
  /\ UNCHANGED <<file_mutex, ids, mounts, gmutex>>
  /\ UNCHANGED outside_file_vars

\* The steps of a thread that is in get_list.
FileStep(t) ==
  \/ melo_browser_file_list_volumes(t)
  \/ melo_browser_file_get_local_list(t)
  \/ volume_lock(t)
  \/ volume_lookup(t)
  \/ volume_mount(t)
  \/ volume_wait(t)
  \/ volume_list(t)

NextFile ==
  \/ \E obj \in FileObjects : vms_added(obj) \/ vms_removed(obj)
  \/ \E t \in FileThreads :
       \/ melo_browser_file_get_list(t)
       \/ FileStep(t)
       \/ mount_ready(t)
       \/ file_return(t)

SpecFile == InitFileBrowser /\ [][NextFile]_vars

\* Every thread in get_list goes on when it can, and the main loop calls
\* mount_ready for every mount operation.
SpecFileFair ==
  /\ SpecFile
  /\ \A t \in FileThreads :
       WF_vars(FileStep(t)) /\ WF_vars(mount_ready(t))

(* ------------------------------------------------------------------ *)
(* The read operations of the playlist: get_list, get_tags, get_cover   *)
(* ------------------------------------------------------------------ *)
\* The cover each MeloTags of the model holds; "tg2" holds none.
TagsCover == [tg1 |-> [data |-> "img1", type |-> "image/png"]]

\* melo_tags_get_cover (tags, type): the cover of the tags and its mime
\* type in *type, or NULL.
melo_tags_get_cover(tags, type) ==
  IF tags \in DOMAIN TagsCover
  THEN TagsCover[tags]
  ELSE [data |-> NullBytes, type |-> type]

\* Mutant: the lookup of a read makes the element found current, as the
\* lookup of play does.
LookupCurrent_AsPlay(element) == IF element # NULL THEN element ELSE current

\* priv->current after the lookup of get_tags and of get_cover: neither
\* assigns it.
LookupCurrent(element) == current

\* if (item->tags) tags = melo_tags_ref (item->tags);
ItemTags(element) ==
  IF element # NULL THEN NodeData(playlist, element).tags ELSE NullTags

melo_playlist_simple_get_tags(t) ==
  /\ pc[t] = "idle"
  /\ mutex = "free"
  /\ \E name \in NameInputs :
       LET element == g_hash_table_lookup(names, name)
       IN /\ frame' = [frame EXCEPT ![t] =
               [EmptyFrame EXCEPT !.op = "get_tags", !.name = name,
                  !.element = element,
                  !.item = NodeData(playlist, element),
                  !.out_tags = ItemTags(element),
                  !.ret = (ItemTags(element) # NullTags)]]
          /\ current' = LookupCurrent(element)
  /\ pc' = [pc EXCEPT ![t] = "done"]
  /\ player_calls' = [player_calls EXCEPT ![t] = <<>>]
  /\ UNCHANGED <<playlist, names, mutex, player, next_node, item_refs>>
  /\ UNCHANGED other_vars

\* What get_cover leaves in *data and *type, which hold data and type when
\* it is called: they are written only for an item that has tags.
CoverOut(element, data0, type0) ==
  IF element # NULL /\ ItemTags(element) # NullTags
  THEN melo_tags_get_cover(ItemTags(element), type0)
  ELSE [data |-> data0, type |-> type0]

\* get_cover returns FALSE for a name that is not in the table and TRUE
\* otherwise.
CoverReturn(element) == element # NULL

\* The caller passes the addresses of two pointers: it has set them to
\* NULL, or it has not set them at all.
melo_playlist_simple_get_cover(t) ==
  /\ pc[t] = "idle"
  /\ mutex = "free"
  /\ \E name \in NameInputs, out0 \in {NullBytes, Uninitialized} :
       LET element == g_hash_table_lookup(names, name)
           type0 == IF out0 = NullBytes THEN NullStr ELSE Uninitialized
           out == CoverOut(element, out0, type0)
       IN /\ frame' = [frame EXCEPT ![t] =
               [EmptyFrame EXCEPT !.op = "get_cover", !.name = name,
                  !.element = element,
                  !.item = NodeData(playlist, element),
                  !.out_data = out.data, !.out_type = out.type,
                  !.ret = CoverReturn(element)]]
          /\ current' = LookupCurrent(element)
  /\ pc' = [pc EXCEPT ![t] = "done"]
  /\ player_calls' = [player_calls EXCEPT ![t] = <<>>]
  /\ UNCHANGED <<playlist, names, mutex, player, next_node, item_refs>>
  /\ UNCHANGED other_vars

NextRead ==
  \E t \in Threads :
    \/ melo_playlist_simple_get_list(t)
    \/ melo_playlist_simple_get_tags(t)
    \/ melo_playlist_simple_get_cover(t)
    \/ melo_playlist_simple_add(t)
    \/ melo_playlist_simple_play(t)
    \/ play_player(t)
    \/ melo_playlist_simple_remove(t)
    \/ remove_stop(t)
    \/ remove_unlink(t)
    \/ Return(t)

SpecRead == InitList /\ [][NextRead]_vars

(* ------------------------------------------------------------------ *)
(* The playlist with two callers.  add is taken step by step here: the  *)
(* call, the lock, the name loop, and the insertion with the unlock.    *)
(* ------------------------------------------------------------------ *)
\* The threads that call the playlist.
Callers == {"t1", "t2"}

\* The playlist of melo_playlist_simple_init with its player attached and
\* two threads about to call it.
InitCallers ==
  /\ playlist = <<>>
  /\ names = EmptyTable
  /\ current = NULL
  /\ mutex = "free"
  /\ player = Player0
  /\ next_node = 1
  /\ pc = [t \in Callers |-> "idle"]
  /\ frame = [t \in Callers |-> EmptyFrame]
  /\ player_calls = [t \in Callers |-> <<>>]
  /\ item_refs = EmptyTable
  /\ kept = NoKept
  /\ gint_max = G_MAXINT
  /\ InitEvent /\ InitPayload /\ InitPlayer /\ InitService

\* Mutant: the lock lets a thread in while another holds it.
g_mutex_lock_NoWait(t) == TRUE

\* g_mutex_lock (&priv->mutex) returns once no thread holds the mutex.
g_mutex_lock(t) == mutex = "free"

\* The adds that have been called and have not inserted their item yet.
AddsRunning ==
  { t \in Callers : pc[t] \in {"add_lock", "add_name", "add_insert"} }

\* A thread calls add: it is about to lock the playlist.
add_call(t) ==
  /\ pc[t] = "idle"
  /\ next_node + Cardinality(AddsRunning) <= MaxAdds
  /\ \E in \in AddInputs, is_current \in BOOLEAN :
       frame' = [frame EXCEPT ![t] =
         [EmptyFrame EXCEPT !.op = "add", !.name = in.name,
            !.full_name = in.full_name, !.path = in.path,
            !.tags = in.tags, !.flag = is_current,
            !.waited = (mutex # "free")]]
  /\ pc' = [pc EXCEPT ![t] = "add_lock"]
  /\ player_calls' = [player_calls EXCEPT ![t] = <<>>]
  /\ UNCHANGED <<playlist, names, current, mutex, player, next_node,
                 item_refs>>
  /\ UNCHANGED other_vars

\* g_mutex_lock (&priv->mutex);
add_lock(t) ==
  /\ pc[t] = "add_lock"
  /\ g_mutex_lock(t)
  /\ mutex' = t
  /\ pc' = [pc EXCEPT ![t] = "add_name"]
  /\ UNCHANGED <<playlist, names, current, player, next_node, frame,
                 player_calls, item_refs>>
  /\ UNCHANGED other_vars

\* The name loop of add, and the return of FALSE when it found no name.
add_name(t) ==
  /\ pc[t] = "add_name"
  /\ LET base == BaseName(frame[t])
         res == NameLoop(names, base, base, 1, TRUE)
         failed == NameFailed(res.i, TRUE)
     IN /\ frame' = [frame EXCEPT ![t].final_name = res.final_name,
                                  ![t].ret = ~failed]
        /\ pc' = [pc EXCEPT ![t] = IF failed THEN "done" ELSE "add_insert"]
        /\ mutex' = IF failed THEN "free" ELSE mutex
  /\ UNCHANGED <<playlist, names, current, player, next_node, player_calls,
                 item_refs>>
  /\ UNCHANGED other_vars

\* The new item is linked and its name inserted; the playlist is unlocked.
add_insert(t) ==
  /\ pc[t] = "add_insert"
  /\ AddInsert(frame[t], frame[t].flag, frame[t].final_name)
  /\ mutex' = "free"
  /\ pc' = [pc EXCEPT ![t] = "done"]
  /\ UNCHANGED <<player, frame, player_calls>>
  /\ UNCHANGED other_vars

NextAdds ==
  \E t \in Callers :
    \/ add_call(t)
    \/ add_lock(t)
    \/ add_name(t)
    \/ add_insert(t)
    \/ Return(t)

SpecAdds == InitCallers /\ [][NextAdds]_vars

\* The two callers add, play and remove items.
NextRace ==
  \E t \in Callers :
    \/ melo_playlist_simple_add(t)
    \/ melo_playlist_simple_play(t)
    \/ play_player(t)
    \/ melo_playlist_simple_remove(t)
    \/ remove_stop(t)
    \/ remove_unlink(t)
    \/ Return(t)

SpecRace == InitCallers /\ [][NextRace]_vars

\* No caller has taken the list of the playlist.
NoListTaken ==
  /\ kept = NoKept
  /\ \A u \in Callers : frame[u].op # "get_list"

\* The callers build the playlist, then one takes its list with get_list
\* and keeps it; once a list is taken nothing is added, and once it is
\* kept each of the two callers makes one call of get_prev or get_next,
\* whose results stay in its frame.
NextAdvance ==
  \E t \in Callers :
    \/ NoListTaken /\ melo_playlist_simple_add(t)
    \/ kept = NoKept /\ Return(t)
    \/ melo_playlist_simple_get_list(t)
    \/ KeepList(t)
    \/ kept.held /\ melo_playlist_simple_get_prev(t)
    \/ kept.held /\ melo_playlist_simple_get_next(t)

SpecAdvance == InitCallers /\ [][NextAdvance]_vars

(* ------------------------------------------------------------------ *)
(* Properties                                                         *)
(* ------------------------------------------------------------------ *)
\* The names of the items of the sequence.
ListNames == { playlist[p].name : p \in 1..Len(playlist) }

\* The item of the sequence that has the name.
ItemNamed(list, name) ==
  list[CHOOSE p \in 1..Len(list) : list[p].name = name]

\* Thread t has finished an operation op and not yet returned.
Done(t, op) == pc[t] = "done" /\ frame[t].op = op

\* C1: in every reachable state no two items of the ordered sequence have
\* the same name.
C1_NamesUnique ==
  \A p, q \in 1..Len(playlist) :
    p # q => playlist[p].name # playlist[q].name

\* An add whose base name was taken twice over has just ended.
C1_Witness ==
  \E t \in Threads :
    /\ Done(t, "add") /\ frame[t].ret
    /\ Len(playlist) = 3
    /\ BaseName(frame[t]) \in { playlist[2].name, playlist[3].name }
    /\ playlist[1].name = BaseName(frame[t]) \o "_2"

\* C2: in every reachable state current is NULL or is a node of the
\* ordered sequence.
C2_CurrentInList == current = NULL \/ current \in Nodes

\* A remove has succeeded and current still refers to another item.
C2_Witness ==
  \E t \in Threads :
    /\ Done(t, "remove") /\ frame[t].ret
    /\ current # NULL
    /\ Len(playlist) >= 1

\* Thread t makes, in this step, the first step of operation op.
Starts(t, op) == pc[t] = "idle" /\ frame'[t].op = op

\* The name add is meant to give: the base name when it is free, otherwise
\* base_i for the smallest i >= 1 such that base_i is free.
ExpectedName(taken, base) ==
  IF base \notin taken THEN base
  ELSE LET Cand(i) == base \o "_" \o ToString(i)
           k == CHOOSE i \in 1..(Cardinality(taken) + 1) :
                  /\ Cand(i) \notin taken
                  /\ \A j \in 1..(i - 1) : Cand(j) \in taken
       IN Cand(k)

\* C3: add resolves a name collision by suffixing: the item added gets the
\* base name if it is free, otherwise base_i for the smallest i >= 1 such
\* that base_i is free.
C3_SuffixOnCollision ==
  [][\A t \in Threads :
       (Starts(t, "add") /\ frame'[t].ret) =>
         playlist'[1].name = ExpectedName(ListNames, BaseName(frame'[t]))]_vars

\* The base name "a" has been added three times to an empty playlist.
C3_Witness ==
  \E t \in Threads :
    /\ Done(t, "add") /\ frame[t].ret
    /\ next_node = 4
    /\ Len(playlist) = 3
    /\ \A p \in 1..3 : playlist[p].path \in {"p1", "p2"}
    /\ <<playlist[3].name, playlist[2].name, playlist[1].name>>
         = <<"a", "a_1", "a_2">>

\* A successful add inserts the new item at the head of the sequence and
\* leaves the rest as it was, indexes the new node by its final name, and
\* makes it current exactly when is_current is set.
C4_AddStep ==
  \A t \in Threads :
    (Starts(t, "add") /\ frame'[t].ret) =>
      /\ Len(playlist') = Len(playlist) + 1
      /\ SubSeq(playlist', 2, Len(playlist')) = playlist
      /\ playlist'[1].path = frame'[t].path
      /\ playlist'[1].tags = frame'[t].tags
      /\ playlist'[1].node \notin Nodes
      /\ DOMAIN names' = DOMAIN names \cup {playlist'[1].name}
      /\ names'[playlist'[1].name] = playlist'[1].node
      /\ \A k \in DOMAIN names : names'[k] = names[k]
      /\ current' = IF frame'[t].flag THEN playlist'[1].node ELSE current

\* The list get_list returns holds the items most-recently-added first.
C4_ListNewestFirst ==
  \A t \in Threads :
    Done(t, "get_list") =>
      /\ Len(frame[t].list) = Len(playlist)
      /\ \A p, q \in 1..Len(frame[t].list) :
           p < q => frame[t].list[p].node > frame[t].list[q].node

\* C4: a successful add inserts the new item at the head of the ordered
\* sequence, so that get_list returns the items most-recently-added first,
\* and indexes it by its final name; current becomes the new item if
\* is_current is set and is unchanged otherwise.
C4_AddAtHead == [][C4_AddStep]_vars /\ []C4_ListNewestFirst

\* An add without is_current has ended and current is an older item.
C4_Witness ==
  \E t \in Threads :
    /\ Done(t, "add") /\ frame[t].ret /\ ~frame[t].flag
    /\ Len(playlist) >= 2
    /\ current # NULL /\ current # playlist[1].node

\* C5: remove of the item that is current succeeds, removes the item from
\* the sequence and from the lookup map, sets current to NULL and asks the
\* player for the state NONE.
C5_RemoveCurrent ==
  \A t \in Threads :
    (Done(t, "remove") /\ frame[t].was_current) =>
      /\ frame[t].ret
      /\ frame[t].element \notin Nodes
      /\ frame[t].name \notin ListNames
      /\ frame[t].name \notin DOMAIN names
      /\ current = NULL
      /\ Len(player_calls[t]) = 1
      /\ player_calls[t][1].fn = "set_state"
      /\ player_calls[t][1].state = MELO_PLAYER_STATE_NONE
      /\ player_calls[t][1].target = player

\* The current item has been removed from a playlist that holds another
\* item and has a player.
C5_Witness ==
  \E t \in Threads :
    /\ Done(t, "remove") /\ frame[t].was_current
    /\ player # NULL
    /\ Len(playlist) >= 1

\* C6: remove of a name that is not in the playlist fails and changes
\* neither the sequence, the lookup map nor current, and calls no player.
C6_RemoveMissing ==
  [][\A t \in Threads :
       (Starts(t, "remove") /\ frame'[t].name \notin ListNames) =>
         /\ pc'[t] = "done"
         /\ frame'[t].ret = FALSE
         /\ playlist' = playlist
         /\ names' = names
         /\ current' = current
         /\ mutex' = mutex
         /\ player_calls'[t] = <<>>]_vars

\* A remove of an absent name has failed on a playlist with a current item.
C6_Witness ==
  \E t \in Threads :
    /\ Done(t, "remove") /\ ~frame[t].ret
    /\ frame[t].name \notin ListNames
    /\ current # NULL

\* The first step of play: a missing name fails and leaves current, a
\* present name makes its item current.
C7_PlayStep ==
  \A t \in Threads :
    Starts(t, "play") =>
      IF frame'[t].name \in ListNames
      THEN /\ current' = ItemNamed(playlist, frame'[t].name).node
           /\ pc'[t] = "play_player"
      ELSE /\ pc'[t] = "done"
           /\ frame'[t].ret = FALSE
           /\ current' = current
           /\ player_calls'[t] = <<>>

\* The end of play: a failed play has called no player; a successful one
\* has made exactly one play call with the item's path, name and tags when
\* a player is attached, and none otherwise.
C7_PlayDone ==
  \A t \in Threads :
    Done(t, "play") =>
      IF frame[t].ret
      THEN LET item == ItemNamed(playlist, frame[t].name)
           IN /\ current = item.node
              /\ IF player = NULL THEN player_calls[t] = <<>>
                 ELSE /\ Len(player_calls[t]) = 1
                      /\ player_calls[t][1].fn = "play"
                      /\ player_calls[t][1].target = player
                      /\ player_calls[t][1].path = item.path
                      /\ player_calls[t][1].name = item.name
                      /\ player_calls[t][1].tags = item.tags
      ELSE /\ player_calls[t] = <<>>
           /\ frame[t].name \notin ListNames

\* C7: play of a missing name fails, leaves current unchanged and makes no
\* play call; play of a present name makes the item current and, with a
\* player attached, makes exactly one play call with the item's path, name
\* and tags.
C7_Play == [][C7_PlayStep]_vars /\ []C7_PlayDone

\* A play has succeeded on a playlist with a player, for an item that has
\* tags and was not the head.
C7_Witness ==
  \E t \in Threads :
    /\ Done(t, "play") /\ frame[t].ret
    /\ player # NULL
    /\ Len(playlist) >= 2
    /\ current # playlist[1].node
    /\ frame[t].item.tags # NullTags

\* C8: whenever a playlist operation calls the player, the calling thread
\* does not hold the playlist mutex.
C8_PlayerCalledUnlocked ==
  \A t \in Threads :
    \A k \in 1..Len(player_calls[t]) : ~player_calls[t][k].locked

\* The item an advance is meant to resolve: the adjacent item, one step
\* toward the tail for get_prev and one step toward the head for get_next.
Adjacent(op) ==
  LET p == PosOf(playlist, current)
      q == IF op = "get_prev" THEN p + 1 ELSE p - 1
  IN IF current # NULL /\ p > 0 /\ q \in 1..Len(playlist)
     THEN playlist[q] ELSE NoItem

\* C9: get_prev and get_next with set = FALSE return the adjacent item and
\* leave current unchanged; with set = TRUE current moves to the item
\* returned.
C9_SetOrPeek ==
  [][\A t \in Threads : \A op \in {"get_prev", "get_next"} :
       (Starts(t, op) /\ Adjacent(op) # NoItem) =>
         /\ frame'[t].ret_path = Adjacent(op).path
         /\ frame'[t].out_name = Adjacent(op).name
         /\ current' = IF frame'[t].flag THEN Adjacent(op).node
                       ELSE current]_vars

\* The nodes of the sequence added after (later = TRUE) or before the node.
AddedAround(node, later) ==
  { n \in Nodes : IF later THEN n > node ELSE n < node }

\* The node added next after the node (later = TRUE), or last before it.
NeighbourInAddOrder(node, later) ==
  LET S == AddedAround(node, later)
  IN CHOOSE n \in S : \A m \in S : IF later THEN n <= m ELSE n >= m

\* C10: with current = ai among items added in the order a1..an, get_next
\* returns a(i+1), one step toward the head, and get_prev returns a(i-1),
\* one step toward the tail.
C10_Direction ==
  [][\A t \in Threads :
       /\ (Starts(t, "get_next") /\ current # NULL
             /\ AddedAround(current, TRUE) # {}) =>
            /\ frame'[t].out_name =
                 NodeData(playlist, NeighbourInAddOrder(current, TRUE)).name
            /\ PosOf(playlist, NeighbourInAddOrder(current, TRUE))
                 = PosOf(playlist, current) - 1
       /\ (Starts(t, "get_prev") /\ current # NULL
             /\ AddedAround(current, FALSE) # {}) =>
            /\ frame'[t].out_name =
                 NodeData(playlist, NeighbourInAddOrder(current, FALSE)).name
            /\ PosOf(playlist, NeighbourInAddOrder(current, FALSE))
                 = PosOf(playlist, current) + 1]_vars

\* A get_prev from the middle of three items has returned the first added.
C10_Witness ==
  \E t \in Threads :
    /\ Done(t, "get_prev") /\ frame[t].ret /\ ~frame[t].flag
    /\ Len(playlist) = 3
    /\ current = playlist[2].node
    /\ frame[t].out_name = playlist[3].name
    /\ playlist[3].node < playlist[2].node

\* C11: get_prev and get_next return nothing and leave current unchanged
\* when current is NULL or when there is no adjacent item in the direction
\* asked for (get_prev at the tail, get_next at the head).
C11_NoAdjacent ==
  [][\A t \in Threads : \A op \in {"get_prev", "get_next"} :
       (Starts(t, op) /\ Adjacent(op) = NoItem) =>
         /\ frame'[t].ret = FALSE
         /\ frame'[t].ret_path = NullStr
         /\ frame'[t].out_name = NullStr
         /\ frame'[t].out_tags = NullTags
         /\ current' = current
         /\ playlist' = playlist
         /\ names' = names]_vars

\* A get_next with set has returned nothing: current is the head of a
\* playlist of several items.
C11_Witness ==
  \E t \in Threads :
    /\ Done(t, "get_next") /\ ~frame[t].ret /\ frame[t].flag
    /\ Len(playlist) >= 2
    /\ current = playlist[1].node


\* What a caller reads from an item it points at: the item's name while the
\* item is alive, nothing it can rely on once the item has been freed.
ItemRead(item) ==
  IF item.node \in DOMAIN item_refs /\ item_refs[item.node] > 0
  THEN item.name
  ELSE "<freed>"

\* What the holder of the kept list reads from it: the names of its items in
\* order and the name of the current item.
KeptView ==
  [items |-> [p \in 1..Len(kept.items) |-> ItemRead(kept.items[p])],
   current |-> kept.current]

AllTaken(base) ==
  /\ g_hash_table_lookup(names, base) # NULL
  /\ \A i \in 1..gint_max :
       g_hash_table_lookup(names,
         base \o g_snprintf(MELO_PLAYLIST_SIMPLE_NAME_EXT_SIZE, i)) # NULL

C13_Ceiling ==
  \E t \in Threads :
    /\ Done(t, "add") /\ ~frame[t].ret
    /\ AllTaken(BaseName(frame[t]))

\* An add that found every candidate taken has added an item under a name
\* with a negative suffix.
C13_NegativeSuffix ==
  \E p \in 1..Len(playlist) :
    playlist[p].name = "a" \o g_snprintf(MELO_PLAYLIST_SIMPLE_NAME_EXT_SIZE,
                                           -gint_max - 1)


(* ------------------------------------------------------------------ *)
(* Properties of the event dispatcher                                 *)
(* ------------------------------------------------------------------ *)
\* The clients whose callback was called for the event, in the order of
\* the calls.
EventCalls(event) ==
  LET calls == SelectSeq(event_log,
                 LAMBDA x : x.kind = "callback" /\ x.event = event)
  IN [k \in 1..Len(calls) |-> calls[k].client]

\* The thread ends the loop of melo_event_new over the clients.
LoopEnds(t) == epc[t] = "new_loop" /\ epc'[t] = "new_free"

\* Clients are registered by one thread, one after the other: the client
\* registered earlier is the one allocated earlier.
RegisteredBefore(a, b) == a < b

\* C14: melo_event_new calls the callback of every registered client
\* exactly once per event, before it returns, in the order the clients
\* were registered.
C14_RegistrationOrder ==
  [][\A t \in EventThreads :
       LoopEnds(t) =>
         LET calls == EventCalls(eframe[t].event)
         IN /\ Len(calls) = Len(melo_event_clients)
            /\ { calls[k] : k \in 1..Len(calls) } =
                 { melo_event_clients[k] : k \in 1..Len(melo_event_clients) }
            /\ \A j, k \in 1..Len(calls) :
                 j < k => RegisteredBefore(calls[j], calls[k])]_vars

\* An event has been delivered to two clients, the one registered last
\* first.
C14_NewestFirst ==
  \E t \in EventThreads :
    /\ epc[t] = "new_free"
    /\ Len(EventCalls(eframe[t].event)) = 2
    /\ EventCalls(eframe[t].event)[1] > EventCalls(eframe[t].event)[2]

\* The positions of the log at which the destructor of the payload of the
\* event was called, and those at which a callback was called for it.
FreePositions(event) ==
  { p \in 1..Len(event_log) :
      event_log[p].kind = "free" /\ event_log[p].event = event }

CallbackPositions(event) ==
  { p \in 1..Len(event_log) :
      event_log[p].kind = "callback" /\ event_log[p].event = event }

\* The thread runs melo_event_new for the event and has not left the loop
\* over the clients.
InLoop(t, event) ==
  /\ eframe[t].op = "new" /\ eframe[t].event = event
  /\ epc[t] \in {"new_lock", "new_loop", "in_callback"}

\* C15: the destructor of the payload of an event runs at most once, only
\* after every callback for the event has returned, and it has run exactly
\* once when melo_event_new returns, whatever the number of clients.
C15_DestructorOnce ==
  \A event \in 1..MaxEvents :
    /\ Cardinality(FreePositions(event)) <= 1
    /\ \A p \in FreePositions(event) :
         /\ \A q \in CallbackPositions(event) : q < p
         /\ \A t \in EventThreads : ~InLoop(t, event)
    /\ \A t \in EventThreads :
         (/\ epc[t] = "done" /\ eframe[t].op = "new"
          /\ eframe[t].event = event /\ eframe[t].free_data_func)
           => Cardinality(FreePositions(event)) = 1

\* The destructor has run for an event published to no client and for an
\* event published to two.
C15_Witness ==
  \E e1, e2 \in 1..MaxEvents :
    /\ FreePositions(e1) # {} /\ CallbackPositions(e1) = {}
    /\ FreePositions(e2) # {} /\ Cardinality(CallbackPositions(e2)) = 2

\* The step calls the callback of the client.
CallsBack(client) ==
  /\ Len(event_log') = Len(event_log) + 1
  /\ event_log'[Len(event_log')].kind = "callback"
  /\ event_log'[Len(event_log')].client = client

\* The clients in the list: those registered and not yet removed by
\* unregister.
Registered ==
  { melo_event_clients[k] : k \in 1..Len(melo_event_clients) }

\* C16: a client receives every event published while it is registered, and
\* whatever the interleaving of melo_event_new and melo_event_unregister,
\* the callback of a client is never called once unregister has removed the
\* client, so never after unregister has returned.
C16_UntilUnregister ==
  [][/\ \A t \in EventThreads :
          LoopEnds(t) => EventCalls(eframe[t].event) = melo_event_clients
     /\ \A client \in 1..MaxClients :
          CallsBack(client) =>
            /\ client \in Registered
            /\ client \notin client_freed
            /\ \A t \in EventThreads :
                 ~(eframe[t].op = "unregister" /\ eframe[t].client = client
                   /\ epc[t] \in {"unregister_free", "done"})]_vars

\* A client has received an event, has been unregistered and freed, and a
\* later event has been delivered to the other client only.
C16_Witness ==
  \E client \in client_freed : \E e1, e2 \in 1..MaxEvents :
    /\ e1 < e2
    /\ \E k \in 1..Len(EventCalls(e1)) : EventCalls(e1)[k] = client
    /\ EventCalls(e2) # <<>>
    /\ \A k \in 1..Len(EventCalls(e2)) : EventCalls(e2)[k] # client
    /\ FreePositions(e2) # {}

\* The positions at which a thread waits for the lock of the dispatcher.
LockWaits == {"register_lock", "unregister_lock", "new_lock"}

\* The thread has called the dispatcher from a callback and waits for the
\* lock, which its own melo_event_new holds.
Reentered(t) ==
  /\ eframe[t].outer # <<>>
  /\ epc[t] \in LockWaits
  /\ melo_event_mutex = t

\* C17: callbacks run with the lock of the dispatcher held, and once a
\* callback has called register, unregister or melo_event_new, the thread
\* waits for its own lock for ever: the lock is never released, the publish
\* delivers nothing more and never frees its payload, and no register,
\* unregister or publish of any thread gets past its G_LOCK.
C17_ReentryDeadlocks ==
  /\ [](\A t \in EventThreads :
          epc[t] = "in_callback" => melo_event_mutex = t)
  /\ [][\A t \in EventThreads :
          Reentered(t) =>
            /\ melo_event_mutex' = t
            /\ epc'[t] = epc[t]
            /\ eframe'[t] = eframe[t]
            /\ event_log' = event_log
            /\ melo_event_clients' = melo_event_clients
            /\ \A u \in EventThreads :
                 epc[u] \in LockWaits => epc'[u] = epc[u]]_vars

\* A callback has called the dispatcher, and the other thread, which made
\* its call afterwards, waits for the lock too.
C17_Witness ==
  \E t, u \in EventThreads :
    /\ t # u
    /\ Reentered(t)
    /\ epc[u] \in LockWaits
    /\ eframe[u].outer = <<>>


\* C18: for every sub-type of player event, the typed parser applied to the
\* payload yields exactly the values the generator was called with.
C18_ParseYieldsGenerated ==
  ppc = "parsed" => parsed = generated.args

\* A negative position has gone through the pointer and back, and the two
\* fields of a buffering event have been read from the generator's struct.
C18_Witness ==
  /\ ppc = "parsed"
  /\ \/ generated.event = "SEEK" /\ generated.args[1] = G_MININT
        /\ data.hi = -1
     \/ generated.event = "BUFFERING" /\ generated.args[2] = 50
        /\ data.kind = "stack"


(* ------------------------------------------------------------------ *)
(* Properties of the components together                              *)
(* ------------------------------------------------------------------ *)
\* The positions inside the player and inside the dispatcher.
PlayerPositions == {"set_state_lock", "set_state_locked"}
DispatcherPositions == {"new_lock", "new_loop", "in_callback",
                        "callback_called"}
PlaylistPositions == {"locked_op_lock", "locked_op_unlock", "play_lock",
                      "play_unlock", "remove_lock", "remove_locked",
                      "remove_unlink"}

\* The thread holds the lock of the playlist, or of the player, and is in
\* an operation of another component.
CrossCall(t) ==
  /\ sys_stack[t] # <<>>
  /\ \/ mutex = t /\ Top(t).at \in PlayerPositions \cup DispatcherPositions
     \/ player_lock = t
          /\ Top(t).at \in PlaylistPositions \cup DispatcherPositions

\* The lock the thread waits for, if it waits, and who holds it.
WaitsFor(t) ==
  IF sys_stack[t] = <<>> THEN "free"
  ELSE CASE Top(t).at \in {"locked_op_lock", "play_lock", "remove_lock"}
              -> mutex
         [] Top(t).at = "set_state_lock" -> player_lock
         [] Top(t).at = "new_lock" -> melo_event_mutex
         [] OTHER -> "free"

\* Some threads wait for locks that only threads among them hold.
Deadlocked ==
  \E S \in (SUBSET SysThreads) \ {{}} : \A t \in S : WaitsFor(t) \in S

\* C19: no component calls an operation of another component that takes a
\* lock while it holds its own lock, and no deadlock is reachable among
\* threads running playlist operations, status mutations and publishes
\* whose callbacks do not re-enter the dispatcher.
C19_ReleaseBeforeCall ==
  /\ \A t \in SysThreads : ~CrossCall(t)
  /\ ~Deadlocked

\* A thread is in the dispatcher with the mutex of the playlist.
C19_CrossCall == \E t \in SysThreads : CrossCall(t)

\* Threads wait for each other, or one for itself.
C19_Deadlock == Deadlocked

\* The place of a mutation in the order of application.
AppliedAt(id) == CHOOSE p \in 1..Len(applied) : applied[p] = id

\* C20: every client receives the state events of the player in the order
\* in which the mutations were applied to the status under the lock of the
\* player.
C20_AppliedOrder ==
  \A client \in Subscribers :
    \A j, k \in 1..Len(received[client]) :
      j < k => AppliedAt(received[client][j]) < AppliedAt(received[client][k])

\* Both clients have received two events in the order opposite to the one
\* the mutations were applied in.
C20_Reordered ==
  /\ Len(applied) >= 2
  /\ \A client \in Subscribers :
       /\ Len(received[client]) >= 2
       /\ AppliedAt(received[client][1]) > AppliedAt(received[client][2])

(* ------------------------------------------------------------------ *)
(* Properties of the JSON-RPC interface of the browsers               *)
(* ------------------------------------------------------------------ *)
\* Whether the request served has called the function.
Invoked(fn) == \E p \in 1..Len(rpc.invoked) : rpc.invoked[p] = fn

\* The method has returned to its caller.
CallbackEnded == rpc_pc = "returned"

\* C21: every invocation of the method get_list of the browsers ends with
\* exactly one of *result and *error set: the error alone when the params
\* do not fit the schema or no browser has the id, the result alone when
\* the list of the browser was fetched.
C21_ResultXorError ==
  CallbackEnded =>
    /\ IsNull(rpc.result) # IsNull(rpc.error)
    /\ IsNull(rpc.obj) => ~IsNull(rpc.error)
    /\ (~IsNull(rpc.obj) /\ rpc.bro = NullBrowser) => ~IsNull(rpc.error)
    /\ Invoked("melo_browser_get_list") => ~IsNull(rpc.result)

\* The method ended on the path that fetched a list with items.
C21_Witness ==
  /\ CallbackEnded
  /\ Invoked("melo_browser_get_list")
  /\ Len(rpc.list) = MaxItems
  /\ Len(rpc.result.items) = MaxItems

\* The request served named an id no browser had when it was looked up.
UnknownBrowser ==
  /\ Invoked("melo_browser_get_browser_by_id")
  /\ rpc.bro = NullBrowser

\* The request has been answered.
Answered == rpc_pc = "idle" /\ ~IsNull(rpc.response)

\* C22: a request browser.get_list that names an id no browser has gets
\* the error "No browser found!" within the call: no result is set, the
\* response carries the error and melo_browser_get_list is never called.
C22_UnknownBrowserError ==
  UnknownBrowser =>
    /\ ~IsNull(rpc.error)
    /\ ErrorMessage(rpc.error) = "No browser found!"
    /\ IsNull(rpc.result)
    /\ ~Invoked("melo_browser_get_list")
    /\ rpc_pc \in {"returned", "idle"}
    /\ Answered => rpc.response = Response(NullNode, rpc.error)

\* A request with an unknown id has been answered.
C22_Witness ==
  /\ UnknownBrowser
  /\ Answered
  /\ Member(rpc.params, "id") = JsonString("missing")

\* The params lack id or path, or have a member of another type than the
\* schema of browser.get_list gives it.
BadParams(params) ==
  \/ params.type # "object"
  \/ /\ params.type = "object"
     /\ \/ Member(params, "id").type # "string"
        \/ Member(params, "path").type # "string"
        \/ Member(params, "fields").type \notin {"absent", "array"}
        \/ Member(params, "sort").type \notin {"absent", "object"}

\* The dispatch found the method browser.get_list for the request served.
FoundGetList ==
  /\ rpc.namespace = "browser"
  /\ rpc.method = "get_list"
  /\ rpc.callback # ""

InvalidParamsError ==
  /\ ~IsNull(rpc.error)
  /\ ErrorCode(rpc.error) = MELO_JSONRPC_ERROR_INVALID_PARAMS

Dispatchable(namespace, method) == MethodEntries(namespace, method) # {}

\* The methods of the batch of the browsers.
BatchMethods ==
  { melo_browser_jsonrpc_methods[p].method :
      p \in 1..Len(melo_browser_jsonrpc_methods) }

\* The step of the dispatch that looks the method up.
LookupStep == rpc_pc = "lookup" /\ rpc_pc' # "lookup"

\* The dispatch ends in a protocol error for a method that is not
\* registered, and goes on to the validation for one that is.
C24_LookupStep ==
  LookupStep =>
    IF (rpc.namespace = "browser" /\ rpc.method \in BatchMethods
        /\ registry_call = "register")
    THEN rpc_pc' = "validate" /\ IsNull(rpc'.error)
    ELSE /\ rpc_pc' = "respond"
         /\ ~IsNull(rpc'.error)
         /\ ErrorCode(rpc'.error) = MELO_JSONRPC_ERROR_METHOD_NOT_FOUND
         /\ rpc'.invoked = <<>>

\* A request answered "method not found" never had a function invoked.
C24_NoHandler ==
  (~IsNull(rpc.error)
   /\ ErrorCode(rpc.error) = MELO_JSONRPC_ERROR_METHOD_NOT_FOUND) =>
    /\ rpc.invoked = <<>>
    /\ rpc_pc \in {"respond", "idle"}
    /\ Answered => rpc.response = Response(NullNode, rpc.error)

\* The batch is dispatchable exactly when the last call was a register.
C24_Batch ==
  \A method \in BatchMethods :
    Dispatchable("browser", method) <=> registry_call = "register"

\* C24: the dispatch of namespace.method where the namespace or the method
\* is not registered (never was, or was removed by unregister) ends in a
\* protocol error and invokes no function; after the register of the
\* batch of the browsers every method of it is dispatchable, after the
\* unregister none is.
C24_RegisteredOnly ==
  /\ [][C24_LookupStep]_vars
  /\ []C24_NoHandler
  /\ []C24_Batch

\* After an unregister a request browser.get_list was answered "method not
\* found".
C24_Witness ==
  /\ registry_call = "unregister"
  /\ rpc.namespace = "browser" /\ rpc.method = "get_list"
  /\ Answered
  /\ ~IsNull(rpc.error)
  /\ ErrorCode(rpc.error) = MELO_JSONRPC_ERROR_METHOD_NOT_FOUND

(* ------------------------------------------------------------------ *)
(* Properties of the status of the player                             *)
(* ------------------------------------------------------------------ *)
\* The last call was op, and nothing was called since.
LastCall(op) == status_call.op = op

\* get_status was called after the last call and returned the state.
PolledAfter(state) ==
  (polled.polls > 0 /\ since_poll = "none") => polled.status.state = state

\* The pairs of a state a and a requested state b that set_state takes
\* from a to b: ERROR is left by a reset alone, and a pause of a load or
\* of a buffering leads to the paused variant of a.
ValidPair(a, b) ==
  /\ a # MELO_PLAYER_STATE_ERROR \/ b = MELO_PLAYER_STATE_ERROR
  /\ ~ (b = MELO_PLAYER_STATE_PAUSED
        /\ a \in {MELO_PLAYER_STATE_LOADING, MELO_PLAYER_STATE_BUFFERING})

\* C25: set_state (b) on a player in the state a returns a, and the status
\* then has the state b, which a get_status right after reports, for all
\* valid pairs (a, b).
C25_SetStateReturnsPrevious ==
  (LastCall("set_state")
   /\ ValidPair(status_call.before.state, status_call.state)) =>
    /\ status_call.ret = status_call.before.state
    /\ status.state = status_call.state
    /\ PolledAfter(status_call.state)

\* set_state (PLAYING) was called on a loading player, then get_status.
C25_Witness ==
  /\ LastCall("set_state")
  /\ status_call.before.state = MELO_PLAYER_STATE_LOADING
  /\ status_call.state = MELO_PLAYER_STATE_PLAYING
  /\ status_call.ret = MELO_PLAYER_STATE_LOADING
  /\ polled.polls > 0 /\ since_poll = "none"
  /\ polled.status.state = MELO_PLAYER_STATE_PLAYING

\* The STATE events among the events of the last call.
StateEventsOf(call) ==
  { p \in 1..Len(call.events) : call.events[p].event = "STATE" }

\* C26: set_state publishes a STATE event if and only if the state
\* actually differs: exactly one when the state after the call differs
\* from the state before it, none when it is the same; for a valid pair
\* (a, b) that is one event when b differs from a and none when b is a.
C26_StateEventIffDiffers ==
  (LastCall("set_state") \/ LastCall("set_status_state")) =>
    /\ Cardinality(StateEventsOf(status_call)) =
         IF status.state # status_call.before.state THEN 1 ELSE 0
    /\ ValidPair(status_call.before.state, status_call.state) =>
         Cardinality(StateEventsOf(status_call)) =
           IF status_call.state # status_call.before.state THEN 1 ELSE 0
    /\ \A p \in StateEventsOf(status_call) :
         status_call.events[p].args = <<status.state>>

\* The player reported PLAYING while it was buffering: one STATE event.
C26_Witness ==
  /\ LastCall("set_status_state")
  /\ status_call.before.state = MELO_PLAYER_STATE_BUFFERING
  /\ status.state = MELO_PLAYER_STATE_PLAYING
  /\ Cardinality(StateEventsOf(status_call)) = 1

\* C27: reset called with the state ERROR returns FALSE and does nothing:
\* the active snapshot, with its state, name, tags and error message, is
\* the one before the call and no event is published.
C27_ResetErrorFails ==
  (LastCall("reset_status")
   /\ status_call.state = MELO_PLAYER_STATE_ERROR) =>
    /\ status_call.ret = "FALSE"
    /\ status = status_call.before
    /\ status_call.events = <<>>

\* reset was called with ERROR on a player that has a media and an error.
C27_Witness ==
  /\ LastCall("reset_status")
  /\ status_call.state = MELO_PLAYER_STATE_ERROR
  /\ status_call.ret = "FALSE"
  /\ status.name \in MediaNames
  /\ status.error \in ErrorMessages

\* The states that keep a pause requested while a media is prepared.
PauseIntent ==
  {MELO_PLAYER_STATE_PAUSED_LOADING, MELO_PLAYER_STATE_PAUSED_BUFFERING,
   MELO_PLAYER_STATE_PAUSED}

\* What is pending in a state: the load, the buffering or nothing.
Pending(state) ==
  CASE state \in {MELO_PLAYER_STATE_LOADING,
                  MELO_PLAYER_STATE_PAUSED_LOADING} -> "load"
    [] state \in {MELO_PLAYER_STATE_BUFFERING,
                  MELO_PLAYER_STATE_PAUSED_BUFFERING} -> "buffering"
    [] OTHER -> "none"

\* C28: a pause requested while the player is LOADING leaves it in
\* PAUSED_LOADING, and while it is BUFFERING in PAUSED_BUFFERING: the load
\* or the buffering stays pending and the pause is kept, and a get_status
\* right after reports that state.
C28_PauseWhilePreparing ==
  (LastCall("set_state")
   /\ status_call.state = MELO_PLAYER_STATE_PAUSED
   /\ status_call.before.state \in {MELO_PLAYER_STATE_LOADING,
                                    MELO_PLAYER_STATE_BUFFERING}) =>
    /\ status_call.before.state = MELO_PLAYER_STATE_LOADING =>
         status.state = MELO_PLAYER_STATE_PAUSED_LOADING
    /\ status_call.before.state = MELO_PLAYER_STATE_BUFFERING =>
         status.state = MELO_PLAYER_STATE_PAUSED_BUFFERING
    /\ status.state \in PauseIntent
    /\ Pending(status.state) = Pending(status_call.before.state)
    /\ PolledAfter(status.state)

\* A pause was requested during a load and get_status called after it.
C28_Witness ==
  /\ LastCall("set_state")
  /\ status_call.state = MELO_PLAYER_STATE_PAUSED
  /\ status_call.before.state = MELO_PLAYER_STATE_LOADING
  /\ polled.polls > 0 /\ since_poll = "none"
  /\ polled.status.state = MELO_PLAYER_STATE_PAUSED_LOADING

\* From the state the player is in, set_error leads to ERROR.
ErrorReachable ==
  /\ \A error \in ErrorMessages :
       StatusAfterError(status, error).state = MELO_PLAYER_STATE_ERROR
  /\ timestamp < MaxWrites =>
       ENABLED (\E error \in ErrorMessages :
                  melo_player_set_status_error(error))
  /\ LastCall("set_status_error") => status.state = MELO_PLAYER_STATE_ERROR

\* A step that leaves ERROR is the reset of an add, a load or a play.
LeavesErrorByReset ==
  (status.state = MELO_PLAYER_STATE_ERROR
   /\ status'.state # MELO_PLAYER_STATE_ERROR) =>
    /\ status_call'.op = "reset_status"
    /\ status_call'.cmd \in Commands

\* C29: ERROR is reachable from every state of the player, and a player in
\* ERROR stays in ERROR until an add, a load or a play resets the status:
\* no other call leaves ERROR.
C29_ErrorTerminal ==
  /\ []ErrorReachable
  /\ [][LeavesErrorByReset]_vars

\* A play has reset the status of a player that was in ERROR.
C29_Witness ==
  /\ LastCall("reset_status")
  /\ status_call.cmd = "play"
  /\ status_call.before.state = MELO_PLAYER_STATE_ERROR
  /\ status.state = MELO_PLAYER_STATE_LOADING

\* C30: the timestamps get_status returns never decrease; two get_status
\* with no call that wrote the status between them return the same
\* timestamp and a call that wrote the status between them makes the
\* second timestamp strictly greater than the first.
C30_TimestampMonotonic ==
  polled.polls = 2 =>
    /\ polled.timestamp >= polled.previous
    /\ polled.between \in {"none", "same"} =>
         polled.timestamp = polled.previous
    /\ polled.between = "changed" => polled.timestamp > polled.previous

\* get_status was called before and after a call that wrote the status.
C30_Witness ==
  /\ polled.polls = 2
  /\ polled.between = "changed"
  /\ polled.timestamp > polled.previous
  /\ since_poll = "none"

(* ------------------------------------------------------------------ *)
(* Properties of the playlist: the table of names, concurrent callers, *)
(* the read operations and the advance of current                      *)
(* ------------------------------------------------------------------ *)
\* C31: in every reachable state of the playlist the table of names and
\* the list agree: a name is a key of the table if and only if an item of
\* the list has that name, no two items of the list share a name or a
\* node, and the entry of a name is the node of the list that holds the
\* item of that name.
C31_NamesAgree ==
  /\ DOMAIN names = ListNames
  /\ \A p, q \in 1..Len(playlist) :
       (playlist[p].name = playlist[q].name
        \/ playlist[p].node = playlist[q].node) => p = q
  /\ \A k \in DOMAIN names :
       /\ PosOf(playlist, names[k]) > 0
       /\ NodeData(playlist, names[k]).name = k

\* remove has unlinked one item of three: two are left, in the table too.
C31_Witness ==
  /\ \E t \in Threads :
       pc[t] = "done" /\ frame[t].op = "remove" /\ frame[t].ret
  /\ Len(playlist) = 2
  /\ Cardinality(DOMAIN names) = 2

\* Both callers have called add with the same base name and both calls
\* have returned.
BothAdded ==
  /\ \A t \in Callers : pc[t] = "done" /\ frame[t].op = "add"
  /\ BaseName(frame["t1"]) = BaseName(frame["t2"])

\* The item the add of t made is in the list under its final name, and
\* the entry of the name in the table is its node.
AddedItem(t) ==
  /\ frame[t].final_name \in DOMAIN names
  /\ PosOf(playlist, names[frame[t].final_name]) > 0
  /\ LET item == NodeData(playlist, names[frame[t].final_name])
     IN /\ item.name = frame[t].final_name
        /\ item.path = frame[t].path
        /\ item.full_name = frame[t].full_name

\* C32: two adds with the same base name that run at the same time on one
\* playlist are serialized by its mutex: both return TRUE, their final
\* names differ, and both items are in the list and in the table of names
\* afterwards.
C32_ConcurrentAdds ==
  /\ Cardinality({ t \in Callers :
                     pc[t] \in {"add_name", "add_insert"} }) <= 1
  /\ BothAdded =>
       /\ \A t \in Callers : frame[t].ret /\ AddedItem(t)
       /\ frame["t1"].final_name # frame["t2"].final_name
       /\ names[frame["t1"].final_name] # names[frame["t2"].final_name]

\* Both adds of the name "a" have returned, and one was called while the
\* other held the mutex.
C32_Witness ==
  /\ BothAdded
  /\ BaseName(frame["t1"]) = "a"
  /\ \E t \in Callers : frame[t].waited
  /\ \A t \in Callers : frame[t].ret /\ AddedItem(t)
  /\ {frame["t1"].final_name, frame["t2"].final_name} = {"a", "a_1"}

\* A remove of the item has asked the player for NONE: it found the item
\* current, stopped the player and has not returned to its caller yet.
StopRequested(item) ==
  \E u \in Callers :
    /\ frame[u].op = "remove"
    /\ frame[u].was_current
    /\ frame[u].item.node = item.node
    /\ pc[u] \in {"remove_unlink", "done"}

\* The step of play that calls the player.
PlayIssued(t) ==
  /\ pc[t] = "play_player"
  /\ pc'[t] = "done"
  /\ player # NULL

\* C33: when play (n) and remove (n) run at the same time and both return
\* TRUE, the player is not asked to play the item n after remove (n) has
\* asked it for NONE, so that the player does not play an item that is no
\* longer in the playlist while current is NULL.
C33_NoPlayAfterStop ==
  [][\A t \in Callers : PlayIssued(t) => ~StopRequested(frame[t].item)]_vars

(* ------------------------------------------------------------------ *)
(* Properties of the dispatcher with several publishers                *)
(* ------------------------------------------------------------------ *)
\* The positions of the log where the callback of a client was called,
\* and those where it was called for the event.
Callbacks == { p \in 1..Len(event_log) : event_log[p].kind = "callback" }
CallbackOf(client, event) ==
  { p \in Callbacks :
      event_log[p].client = client /\ event_log[p].event = event }

\* The threads that are in the loop of melo_event_new.
Delivering == { t \in EventThreads : epc[t] \in {"new_loop", "in_callback"} }

\* The callbacks of an event are called one after the other, with no
\* callback of another event between two of them.
EventsApart ==
  \A p, q, r \in Callbacks :
    (p < q /\ q < r /\ event_log[p].event = event_log[r].event) =>
      event_log[q].event = event_log[p].event

\* Two clients that were both called for two events were called for them
\* in the same order.
SameOrder ==
  \A c, d \in 1..MaxClients, e, f \in 1..MaxEvents :
    \A pc_e \in CallbackOf(c, e), pc_f \in CallbackOf(c, f),
       pd_e \in CallbackOf(d, e), pd_f \in CallbackOf(d, f) :
      (pc_e < pc_f) <=> (pd_e < pd_f)

\* C34: publishes that run at the same time are serialized by the lock of
\* the dispatcher: one thread at a time is in the loop over the clients,
\* all the callbacks of an event are called before any callback of another
\* event, and all the clients see any two events in the same order.
C34_PublishesSerialized ==
  /\ Cardinality(Delivering) <= 1
  /\ EventsApart
  /\ SameOrder

\* Two threads publish at the same time: the first has called both
\* clients and not returned yet, the second is in its second callback.
C34_Witness ==
  /\ Len(melo_event_clients) = 2
  /\ \E t, u \in EventThreads :
       /\ t # u
       /\ epc[t] = "new_free" /\ eframe[t].op = "new"
       /\ epc[u] = "in_callback" /\ eframe[u].l = 2
       /\ \A c \in {melo_event_clients[1], melo_event_clients[2]} :
            /\ CallbackOf(c, eframe[t].event) # {}
            /\ CallbackOf(c, eframe[u].event) # {}

(* ------------------------------------------------------------------ *)
(* Properties of the read operations of the playlist                   *)
(* ------------------------------------------------------------------ *)
\* The step in which the thread runs a read operation.
ReadStep(t) ==
  /\ pc[t] = "idle"
  /\ pc'[t] = "done"
  /\ frame'[t].op \in {"get_list", "get_tags", "get_cover"}

\* C35: get_list, get_tags and get_cover leave the list, the table of
\* names and current as they were, and call no function of the player.
C35_ReadsChangeNothing ==
  [][\A t \in Threads :
       ReadStep(t) =>
         /\ playlist' = playlist
         /\ names' = names
         /\ current' = current
         /\ player_calls'[t] = <<>>]_vars

\* get_tags has returned the tags of an item that is not the current one.
C35_Witness ==
  \E t \in Threads :
    /\ pc[t] = "done"
    /\ frame[t].op = "get_tags"
    /\ frame[t].out_tags # NullTags
    /\ current # NULL
    /\ frame[t].element # current
    /\ player_calls[t] = <<>>

\* The item get_cover was called for has a cover in its tags.
HasCover(f) ==
  /\ f.element # NULL
  /\ f.item.tags \in DOMAIN TagsCover

\* get_cover gave no cover: it returned FALSE or left NULL in *data.
NoCover(f) == ~f.ret \/ f.out_data = NullBytes

\* C36: get_cover (name) gives the cover, bytes and mime type, of the
\* item of that name when its tags hold one, and gives none otherwise:
\* when no item has the name, and when the item has no tags or its tags
\* hold no cover.
C36_CoverOrNone ==
  \A t \in Threads :
    (pc[t] = "done" /\ frame[t].op = "get_cover") =>
      IF HasCover(frame[t])
      THEN /\ frame[t].ret
           /\ frame[t].out_data = TagsCover[frame[t].item.tags].data
           /\ frame[t].out_type = TagsCover[frame[t].item.tags].type
      ELSE NoCover(frame[t])

(* ------------------------------------------------------------------ *)
(* Properties of the advance of current                                *)
(* ------------------------------------------------------------------ *)
\* Since the list was kept, one caller has made a get_prev and the other
\* a get_next, both with set TRUE and both have found an item.
AdvancedBothWays ==
  /\ kept.held
  /\ \A t \in Callers : pc[t] = "done" /\ frame[t].flag /\ frame[t].ret
  /\ {frame["t1"].op, frame["t2"].op} = {"get_prev", "get_next"}

\* C37: with set TRUE, a get_prev that found an item followed by a get_next
\* that found one, or a get_next followed by a get_prev, with no other
\* change between them, leave current on the item it was on before the
\* two calls.
C37_PrevNextInverse ==
  AdvancedBothWays =>
    /\ current # NULL
    /\ NodeData(playlist, current).name = kept.current

\* current is back on the head of the list: get_prev was called first,
\* as get_next finds nothing from the head.
C37_Witness ==
  /\ AdvancedBothWays
  /\ Len(playlist) >= 2
  /\ current = playlist[1].node
  /\ kept.current = playlist[1].name

\* A thread waits for the end of the mount operation it started.
WaitingForMount(t) == fpc[t] = "volume_wait"

\* The mutex of the list is free, or held by a thread in the lookup, which
\* unlocks it with its next step.
ListLockSoonFree ==
  file_mutex = "free" \/ fpc[file_mutex] = "volume_lookup"

\* C38: while a thread waits in get_list for the mount of a volume, it does
\* not hold the mutex of the list of volumes and mounts: the mutex is free,
\* and then the handlers of added and removed volumes and the other
\* get_list calls can lock it, or it is held by another thread for the time
\* of its lookup.
C38_NoListLockWhileWaiting ==
  \A t \in FileThreads :
    WaitingForMount(t) =>
      /\ file_mutex # t
      /\ ListLockSoonFree
      /\ file_mutex = "free" =>
           /\ \A obj \in FileObjects :
                ENABLED (vms_added(obj) \/ vms_removed(obj))
           /\ \A u \in FileThreads :
                fpc[u] = "volume_lock" => ENABLED volume_lock(u)

\* A thread waits for the mount of a volume that a handler has removed from
\* the list since, while the other thread holds the mutex in its lookup.
C38_Witness ==
  \E t \in FileThreads :
    /\ WaitingForMount(t)
    /\ wait_mutex[t] = "locked"
    /\ fframe[t].obj \notin ids
    /\ \E u \in FileThreads \ {t} :
         file_mutex = u /\ fpc[u] = "volume_lookup"

\* get_list has returned NULL, the empty list.
ReturnedEmpty(t) == fpc[t] = "done" /\ fframe[t].ret = "NULL"

====
